---------------------------- MODULE Spec2Model ----------------------------
(***************************************************************************)
(* LRCP (Line Reversal Control Protocol) server of src/01/main.ts:         *)
(* the message codec (parseMsg, escapeData), the Session class, the        *)
(* dispatcher of createLRCPServer and the LineReader of src/utils.ts.      *)
(*                                                                         *)
(* Byte strings are sequences of one-character strings.  Session objects   *)
(* live in a heap indexed by creation order; the registry `sessions` maps  *)
(* a session id to a heap index (0 = no entry).                            *)
(*                                                                         *)
(* Two specifications share the handlers.  Spec leaves the time out: a     *)
(* timer callback may run at any moment after the timer was armed, in any  *)
(* order, which covers every delay the event loop can add.  TimedSpec      *)
(* keeps, for every timer, the time that remains until it is due; Tick     *)
(* lets one retransmission period pass, and a due timer runs before time   *)
(* passes further.                                                         *)
(* getClientId / clientMap only feed console.log and are left out.         *)
(***************************************************************************)
EXTENDS Integers, Sequences, FiniteSets, TLC

\* ------------------------------------------------------------ constants
RetransmissionTimeout == 3000
SessionExpiryTimeout == 60000
LrcpMaxLength == 999
MAX_PAYLOAD == 950

\* ------------------------------------------------------------ bounds
\* Session objects ever constructed.
MaxSessions == 1
\* Outbound segments written in a run, over all Session objects.
MaxSegments == 2
\* next() calls in a run, over all Session objects.
MaxPulls == 2
\* Largest session id of an inbound datagram (ids are 1..MaxSessionId).
MaxSessionId == 1
\* Largest LENGTH of an inbound ACK.
MaxAckLength == 3
\* Session objects constructed for one id in a run of ReuseSpec.
MaxIncarnations == 2
\* Longest payload CodecSpec enumerates over its alphabet.
MaxPayloadLen == 4
\* ReaderSpec: largest initSize, longest chunk, largest read length and the
\* bytes appended to one SlidingBufferReader.
MaxInitSize == 2
MaxChunk == 2
MaxRead == 3
MaxAppended == 4

LF == "\n"
SL == "/"
BS == "\\"

\* ------------------------------------------------------------ text helpers
Digits == <<"0", "1", "2", "3", "4", "5", "6", "7", "8", "9">>

IsDigit(c) == \E i \in 1..10 : Digits[i] = c

DigitVal(c) == (CHOOSE i \in 1..10 : Digits[i] = c) - 1

\* `${n}` of a non-negative integer
RECURSIVE Dec(_)
Dec(n) == IF n < 10 THEN <<Digits[n + 1]>>
          ELSE Dec(n \div 10) \o <<Digits[(n % 10) + 1]>>

\* parseInt of a string the regular expression matched as \d+
RECURSIVE parseInt(_)
parseInt(s) == IF s = <<>> THEN 0
               ELSE parseInt(SubSeq(s, 1, Len(s) - 1)) * 10 + DigitVal(s[Len(s)])

\* String.prototype.replaceAll with a non-empty string pattern: the matches
\* are the leftmost, non-overlapping occurrences of pat, and the replacement
\* is not rescanned.
\* MatchAt: a match starts at i when pat occurs there and no match that
\* started before i covers i.
RECURSIVE MatchAt(_, _, _)
MatchAt(s, pat, i) ==
    /\ i + Len(pat) - 1 <= Len(s)
    /\ SubSeq(s, i, i + Len(pat) - 1) = pat
    /\ \A j \in (i - Len(pat) + 1)..(i - 1) : j >= 1 => ~MatchAt(s, pat, j)

\* the concatenation of pieces[lo..hi]
RECURSIVE Join(_, _, _)
Join(pieces, lo, hi) ==
    IF lo > hi THEN <<>>
    ELSE IF lo = hi THEN pieces[lo]
    ELSE Join(pieces, lo, (lo + hi) \div 2) \o Join(pieces, (lo + hi) \div 2 + 1, hi)

replaceAll(s, pat, rep) ==
    LET match == [i \in 1..Len(s) |-> MatchAt(s, pat, i)]
        pieces == [i \in 1..Len(s) |->
                      IF match[i] THEN rep
                      ELSE IF \E j \in (i - Len(pat) + 1)..(i - 1) : j >= 1 /\ match[j]
                           THEN <<>>
                           ELSE <<s[i]>>]
    IN  Join(pieces, 1, Len(s))

includes(s, c) == \E i \in 1..Len(s) : s[i] = c

StartsWith(s, p) == Len(s) >= Len(p) /\ SubSeq(s, 1, Len(p)) = p

\* number of leading digits of s from index i on (the greedy \d+)
RECURSIVE DigitRun(_, _)
DigitRun(s, i) == IF i <= Len(s) /\ IsDigit(s[i]) THEN 1 + DigitRun(s, i + 1) ELSE 0

\* ------------------------------------------------------------ codec
\* escapeData escaping the slash before the backslash
escapeData_SlashFirst(input) ==
    replaceAll(replaceAll(input, <<SL>>, <<BS, SL>>), <<BS>>, <<BS, BS>>)

escapeData(input) ==
    replaceAll(replaceAll(input, <<BS>>, <<BS, BS>>), <<SL>>, <<BS, SL>>)

unescapeData(input) ==
    replaceAll(replaceAll(input, <<BS, BS>>, <<BS>>), <<BS, SL>>, <<SL>>)

isDataValid(msg) ==
    LET m == replaceAll(replaceAll(msg, <<BS, BS>>, <<>>), <<BS, SL>>, <<>>)
    IN  ~includes(m, SL) /\ ~includes(m, BS)

ConnectPrefix == <<"/", "c", "o", "n", "n", "e", "c", "t", "/">>
ClosePrefix == <<"/", "c", "l", "o", "s", "e", "/">>
DataPrefix == <<"/", "d", "a", "t", "a", "/">>
AckPrefix == <<"/", "a", "c", "k", "/">>

\* the wire text the server builds with template literals
ConnectText(sessionId) == ConnectPrefix \o Dec(sessionId) \o <<SL>>
CloseText(sessionId) == ClosePrefix \o Dec(sessionId) \o <<SL>>
AckText(sessionId, pos) == AckPrefix \o Dec(sessionId) \o <<SL>> \o Dec(pos) \o <<SL>>
\* DataText without escapeData
DataText_Raw(sessionId, pos, data) ==
    DataPrefix \o Dec(sessionId) \o <<SL>> \o Dec(pos) \o <<SL>> \o data \o <<SL>>

DataText(sessionId, pos, data) ==
    DataPrefix \o Dec(sessionId) \o <<SL>> \o Dec(pos) \o <<SL>>
        \o escapeData(data) \o <<SL>>

NullMsg == [type |-> "null"]

\* /^<prefix>(\d+)\/$/ : the digits, or <<>> when there is no match
OneField(input, prefix) ==
    IF ~StartsWith(input, prefix) THEN <<>>
    ELSE LET a == Len(prefix) + 1
             n == DigitRun(input, a)
         IN  IF n >= 1 /\ Len(input) = a + n /\ input[a + n] = SL
             THEN SubSeq(input, a, a + n - 1)
             ELSE <<>>

\* parseMsg without the length test
parseMsg_NoLimit(buf) ==
    IF OneField(buf, ConnectPrefix) # <<>>
    THEN [type |-> "connect", sessionId |-> parseInt(OneField(buf, ConnectPrefix))]
    ELSE IF OneField(buf, ClosePrefix) # <<>>
    THEN [type |-> "close", sessionId |-> parseInt(OneField(buf, ClosePrefix))]
    ELSE IF StartsWith(buf, DataPrefix)
            /\ LET a == Len(DataPrefix) + 1
                   n == DigitRun(buf, a)
                   b == a + n + 1
                   k == DigitRun(buf, b)
               IN  /\ n >= 1
                   /\ a + n <= Len(buf) /\ buf[a + n] = SL
                   /\ k >= 1
                   /\ b + k <= Len(buf) /\ buf[b + k] = SL
                   /\ Len(buf) > b + k /\ buf[Len(buf)] = SL
    THEN LET a == Len(DataPrefix) + 1
             n == DigitRun(buf, a)
             b == a + n + 1
             k == DigitRun(buf, b)
             m3 == SubSeq(buf, b + k + 1, Len(buf) - 1)
         IN  IF ~isDataValid(m3) THEN NullMsg
             ELSE [type |-> "data",
                   sessionId |-> parseInt(SubSeq(buf, a, a + n - 1)),
                   pos |-> parseInt(SubSeq(buf, b, b + k - 1)),
                   data |-> unescapeData(m3)]
    ELSE IF StartsWith(buf, AckPrefix)
            /\ LET a == Len(AckPrefix) + 1
                   n == DigitRun(buf, a)
                   b == a + n + 1
                   k == DigitRun(buf, b)
               IN  /\ n >= 1
                   /\ a + n <= Len(buf) /\ buf[a + n] = SL
                   /\ k >= 1
                   /\ Len(buf) = b + k /\ buf[b + k] = SL
    THEN LET a == Len(AckPrefix) + 1
             n == DigitRun(buf, a)
             b == a + n + 1
             k == DigitRun(buf, b)
         IN  [type |-> "ack",
              sessionId |-> parseInt(SubSeq(buf, a, a + n - 1)),
              length |-> parseInt(SubSeq(buf, b, b + k - 1))]
    ELSE NullMsg

parseMsg(buf) ==
    IF Len(buf) >= 1000 THEN NullMsg
    ELSE IF OneField(buf, ConnectPrefix) # <<>>
    THEN [type |-> "connect", sessionId |-> parseInt(OneField(buf, ConnectPrefix))]
    ELSE IF OneField(buf, ClosePrefix) # <<>>
    THEN [type |-> "close", sessionId |-> parseInt(OneField(buf, ClosePrefix))]
    ELSE IF StartsWith(buf, DataPrefix)
            /\ LET a == Len(DataPrefix) + 1
                   n == DigitRun(buf, a)
                   b == a + n + 1
                   k == DigitRun(buf, b)
               IN  /\ n >= 1
                   /\ a + n <= Len(buf) /\ buf[a + n] = SL
                   /\ k >= 1
                   /\ b + k <= Len(buf) /\ buf[b + k] = SL
                   /\ Len(buf) > b + k /\ buf[Len(buf)] = SL
    THEN LET a == Len(DataPrefix) + 1
             n == DigitRun(buf, a)
             b == a + n + 1
             k == DigitRun(buf, b)
             m3 == SubSeq(buf, b + k + 1, Len(buf) - 1)
         IN  IF ~isDataValid(m3) THEN NullMsg
             ELSE [type |-> "data",
                   sessionId |-> parseInt(SubSeq(buf, a, a + n - 1)),
                   pos |-> parseInt(SubSeq(buf, b, b + k - 1)),
                   data |-> unescapeData(m3)]
    ELSE IF StartsWith(buf, AckPrefix)
            /\ LET a == Len(AckPrefix) + 1
                   n == DigitRun(buf, a)
                   b == a + n + 1
                   k == DigitRun(buf, b)
               IN  /\ n >= 1
                   /\ a + n <= Len(buf) /\ buf[a + n] = SL
                   /\ k >= 1
                   /\ Len(buf) = b + k /\ buf[b + k] = SL
    THEN LET a == Len(AckPrefix) + 1
             n == DigitRun(buf, a)
             b == a + n + 1
             k == DigitRun(buf, b)
         IN  [type |-> "ack",
              sessionId |-> parseInt(SubSeq(buf, a, a + n - 1)),
              length |-> parseInt(SubSeq(buf, b, b + k - 1))]
    ELSE NullMsg


\* ------------------------------------------------------------ LineReader
\* The reader's state is the unread bytes of its SlidingBufferReader.
append(reader, chunk) == reader \o chunk

\* buffer.indexOf(0x0a) on the unread bytes; 0 stands for -1 (positions from 1)
NewlineIndex(reader) ==
    IF includes(reader, LF)
    THEN CHOOSE i \in 1..Len(reader) :
            reader[i] = LF /\ \A j \in 1..(i - 1) : reader[j] # LF
    ELSE 0

\* readLine: found = FALSE stands for null
readLine(reader) ==
    LET newlineIndex == NewlineIndex(reader)
    IN  IF newlineIndex = 0
        THEN [found |-> FALSE, line |-> <<>>, reader |-> reader]
        ELSE [found |-> TRUE,
              line |-> SubSeq(reader, 1, newlineIndex - 1),
              reader |-> SubSeq(reader, newlineIndex + 1, Len(reader))]

\* ------------------------------------------------------------ SlidingBufferReader
\* The object itself, as src/utils.ts keeps it: the Buffer (a sequence of
\* bytes, position i of the Buffer is index i + 1) and the two offsets.
\* A method yields the object after the call (r) and what it returned
\* (ok = FALSE stands for null; bytes is the content of the returned view at
\* the time of the return).
NUL == "nul"

\* Buffer.alloc(size): size zero bytes
alloc(size) == [i \in 1..size |-> NUL]

SlidingBufferReader(initSize) ==
    [buffer |-> alloc(initSize), readOffset |-> 0, writeOffset |-> 0]

available(r) == r.writeOffset - r.readOffset

bufferLength(r) == Len(r.buffer)

\* source.copy(target, targetStart, sourceStart, sourceEnd): the bytes that fit
\* are copied as by memmove; yields the target
copy(source, target, targetStart, sourceStart, sourceEnd) ==
    LET fit == IF sourceEnd - sourceStart <= Len(target) - targetStart
               THEN sourceEnd - sourceStart
               ELSE Len(target) - targetStart
    IN  [i \in 1..Len(target) |->
            IF i > targetStart /\ i <= targetStart + fit
            THEN source[sourceStart + (i - targetStart)]
            ELSE target[i]]

\* ensureCapacity moving the offsets but not the unread bytes when it compacts
ensureCapacity_NoMove(r, minFreeSpace) ==
    LET availableHeadroom == Len(r.buffer) - r.writeOffset
        unread == available(r)
    IN  IF availableHeadroom + r.readOffset >= minFreeSpace
        THEN [buffer |-> r.buffer, readOffset |-> 0, writeOffset |-> unread]
        ELSE LET newSize == IF Len(r.buffer) * 2 >= unread + minFreeSpace
                            THEN Len(r.buffer) * 2 ELSE unread + minFreeSpace
             IN  [buffer |-> copy(r.buffer, alloc(newSize), 0, r.readOffset, r.writeOffset),
                  readOffset |-> 0, writeOffset |-> unread]

\* ensureCapacity that never compacts
ensureCapacity_GrowOnly(r, minFreeSpace) ==
    LET unread == available(r)
        newSize == IF Len(r.buffer) * 2 >= unread + minFreeSpace
                   THEN Len(r.buffer) * 2 ELSE unread + minFreeSpace
    IN  [buffer |-> copy(r.buffer, alloc(newSize), 0, r.readOffset, r.writeOffset),
         readOffset |-> 0, writeOffset |-> unread]

\* ensureCapacity that always compacts and never grows
ensureCapacity_CompactOnly(r, minFreeSpace) ==
    [buffer |-> copy(r.buffer, r.buffer, 0, r.readOffset, r.writeOffset),
     readOffset |-> 0, writeOffset |-> available(r)]

ensureCapacity(r, minFreeSpace) ==
    LET availableHeadroom == Len(r.buffer) - r.writeOffset
        unread == available(r)
    IN  IF availableHeadroom + r.readOffset >= minFreeSpace
        THEN [buffer |-> copy(r.buffer, r.buffer, 0, r.readOffset, r.writeOffset),
              readOffset |-> 0, writeOffset |-> unread]
        ELSE LET newSize == IF Len(r.buffer) * 2 >= unread + minFreeSpace
                            THEN Len(r.buffer) * 2 ELSE unread + minFreeSpace
             IN  [buffer |-> copy(r.buffer, alloc(newSize), 0, r.readOffset, r.writeOffset),
                  readOffset |-> 0, writeOffset |-> unread]

\* SlidingBufferReader.append
SlidingBufferReader_append(r, chunk) ==
    LET r1 == IF r.writeOffset + Len(chunk) > Len(r.buffer)
              THEN ensureCapacity(r, Len(chunk)) ELSE r
    IN  [r1 EXCEPT !.buffer = copy(chunk, r1.buffer, r1.writeOffset, 0, Len(chunk)),
                   !.writeOffset = r1.writeOffset + Len(chunk)]

\* read discarding the buffered bytes when it returns null
read_DropOnNull(r, length) ==
    IF available(r) < length
    THEN [r |-> [r EXCEPT !.readOffset = 0, !.writeOffset = 0],
          ok |-> FALSE, bytes |-> <<>>]
    ELSE LET slice == SubSeq(r.buffer, r.readOffset + 1, r.readOffset + length)
             readOffset == r.readOffset + length
         IN  [r |-> IF readOffset = r.writeOffset
                    THEN [r EXCEPT !.readOffset = 0, !.writeOffset = 0]
                    ELSE [r EXCEPT !.readOffset = readOffset],
              ok |-> TRUE, bytes |-> slice]

read(r, length) ==
    IF available(r) < length THEN [r |-> r, ok |-> FALSE, bytes |-> <<>>]
    ELSE LET slice == SubSeq(r.buffer, r.readOffset + 1, r.readOffset + length)
             readOffset == r.readOffset + length
         IN  [r |-> IF readOffset = r.writeOffset
                    THEN [r EXCEPT !.readOffset = 0, !.writeOffset = 0]
                    ELSE [r EXCEPT !.readOffset = readOffset],
              ok |-> TRUE, bytes |-> slice]

peek(r, length) ==
    IF available(r) < length THEN [ok |-> FALSE, bytes |-> <<>>]
    ELSE [ok |-> TRUE, bytes |-> SubSeq(r.buffer, r.readOffset + 1, r.readOffset + length)]

\* LineReader.readLine on the SlidingBufferReader it owns
LineReader_readLine(r) ==
    LET buffer == peek(r, available(r)).bytes
        newlineIndex == NewlineIndex(buffer) - 1
    IN  IF newlineIndex = -1 THEN [r |-> r, ok |-> FALSE, bytes |-> <<>>]
        ELSE LET line == read(r, newlineIndex)
             IN  [r |-> read(line.r, 1).r, ok |-> TRUE, bytes |-> line.bytes]

\* ------------------------------------------------------------ Session
\* A method yields the Session after the call (s), the datagrams it handed to
\* _rawSend (sent), the pull requests it resolved (res) and, for _data / write,
\* the timers it armed (armed) and whether the size assertion threw (threw).
NewSession(rinfo, sessionId) ==
    [sessionId |-> sessionId, rinfo |-> rinfo, closed |-> FALSE,
     queue |-> <<>>, pendingResolver |-> 0,
     sendLength |-> 0, sendDataMsgs |-> <<>>, readPos |-> 0,
     lineReader |-> <<>>, maxAckLength |-> 0]

EndOfStream(pull) == [pull |-> pull, done |-> TRUE, value |-> <<>>]
Record(pull, line) == [pull |-> pull, done |-> FALSE, value |-> line]

_close(s) ==
    [s |-> [s EXCEPT !.closed = TRUE, !.pendingResolver = 0, !.queue = <<>>],
     sent |-> <<>>,
     res |-> IF s.pendingResolver # 0 THEN <<EndOfStream(s.pendingResolver)>> ELSE <<>>]

\* _onLine queueing the line without looking at the pending-consumer slot
_onLine_QueueOnly(s, line) ==
    [s |-> [s EXCEPT !.queue = Append(@, line)], res |-> <<>>]

_onLine(s, line) ==
    IF s.pendingResolver # 0
    THEN [s |-> [s EXCEPT !.pendingResolver = 0],
          res |-> <<Record(s.pendingResolver, line)>>]
    ELSE [s |-> [s EXCEPT !.queue = Append(@, line)], res |-> <<>>]

_ack(s, pos) == AckText(s.sessionId, pos)

\* _onData reading at most one line per segment (if in place of while)
ReadLines_Once(s) ==
    LET r == readLine(s.lineReader)
    IN  IF ~r.found THEN [s |-> s, res |-> <<>>]
        ELSE _onLine([s EXCEPT !.lineReader = r.reader], r.line)

\* the while loop of _onData
RECURSIVE ReadLines(_)
ReadLines(s) ==
    LET r == readLine(s.lineReader)
    IN  IF ~r.found THEN [s |-> s, res |-> <<>>]
        ELSE LET a == _onLine([s EXCEPT !.lineReader = r.reader], r.line)
                 b == ReadLines(a.s)
             IN  [s |-> b.s, res |-> a.res \o b.res]

\* _onData without the position test
_onData_AnyPos(s, pos, data) ==
    LET readPos == s.readPos + Len(data)
        r == ReadLines([s EXCEPT !.readPos = readPos,
                                 !.lineReader = append(@, data)])
    IN  [s |-> r.s, sent |-> <<_ack(s, readPos)>>, res |-> r.res]

\* _onData acknowledging the position of the segment, not the new readPos
_onData_AckPos(s, pos, data) ==
    IF s.readPos = pos
    THEN LET r == ReadLines([s EXCEPT !.readPos = s.readPos + Len(data),
                                      !.lineReader = append(@, data)])
         IN  [s |-> r.s, sent |-> <<_ack(s, pos)>>, res |-> r.res]
    ELSE [s |-> s, sent |-> <<_ack(s, s.readPos)>>, res |-> <<>>]

\* _onData taking a segment at or before readPos as new
_onData_AcceptOld(s, pos, data) ==
    IF pos <= s.readPos
    THEN LET readPos == s.readPos + Len(data)
             r == ReadLines([s EXCEPT !.readPos = readPos,
                                      !.lineReader = append(@, data)])
         IN  [s |-> r.s, sent |-> <<_ack(s, readPos)>>, res |-> r.res]
    ELSE [s |-> s, sent |-> <<_ack(s, s.readPos)>>, res |-> <<>>]

_onData(s, pos, data) ==
    IF s.readPos = pos
    THEN LET readPos == s.readPos + Len(data)
             r == ReadLines([s EXCEPT !.readPos = readPos,
                                      !.lineReader = append(@, data)])
         IN  [s |-> r.s, sent |-> <<_ack(s, readPos)>>, res |-> r.res]
    ELSE [s |-> s, sent |-> <<_ack(s, s.readPos)>>, res |-> <<>>]

\* the retransmit loop resending also the segment that ends at length
RECURSIVE Retransmit_Inclusive(_, _, _, _)
Retransmit_Inclusive(msgs, i, pos, length) ==
    IF i > Len(msgs) THEN <<>>
    ELSE LET p == pos + msgs[i].length
         IN  (IF p >= length THEN <<msgs[i].msg>> ELSE <<>>)
                 \o Retransmit_Inclusive(msgs, i + 1, p, length)

\* the retransmit loop of _onAck over sendDataMsgs[i..], pos bytes before it
RECURSIVE Retransmit(_, _, _, _)
Retransmit(msgs, i, pos, length) ==
    IF i > Len(msgs) THEN <<>>
    ELSE LET p == pos + msgs[i].length
         IN  (IF p > length THEN <<msgs[i].msg>> ELSE <<>>)
                 \o Retransmit(msgs, i + 1, p, length)

\* _onAck without the misbehaving-peer test
_onAck_NoClose(s, length) ==
    IF length <= s.maxAckLength
    THEN [s |-> s, sent |-> <<>>, res |-> <<>>]
    ELSE LET s1 == [s EXCEPT !.maxAckLength = length]
         IN  IF length >= s1.sendLength
             THEN [s |-> s1, sent |-> <<>>, res |-> <<>>]
             ELSE [s |-> s1, sent |-> Retransmit(s1.sendDataMsgs, 1, 0, length),
                   res |-> <<>>]

\* _onAck answering a stale ACK with a retransmission
_onAck_StaleResends(s, length) ==
    IF length <= s.maxAckLength
    THEN [s |-> s, sent |-> Retransmit(s.sendDataMsgs, 1, 0, length), res |-> <<>>]
    ELSE LET s1 == [s EXCEPT !.maxAckLength = length]
         IN  IF length > s1.sendLength THEN _close(s1)
             ELSE IF length = s1.sendLength
             THEN [s |-> s1, sent |-> <<>>, res |-> <<>>]
             ELSE [s |-> s1, sent |-> Retransmit(s1.sendDataMsgs, 1, 0, length),
                   res |-> <<>>]

_onAck(s, length) ==
    IF length <= s.maxAckLength
    THEN [s |-> s, sent |-> <<>>, res |-> <<>>]
    ELSE LET s1 == [s EXCEPT !.maxAckLength = length]
         IN  IF length > s1.sendLength THEN _close(s1)
             ELSE IF length = s1.sendLength
             THEN [s |-> s1, sent |-> <<>>, res |-> <<>>]
             ELSE [s |-> s1, sent |-> Retransmit(s1.sendDataMsgs, 1, 0, length),
                   res |-> <<>>]

\* one timer of a segment, as setInterval / setTimeout capture it
\* (seg, the index of the segment in sendDataMsgs, stands for the timer handle)
Timer(kind, seg, msg, newSendLength, delay) ==
    [kind |-> kind, seg |-> seg, msg |-> msg, newSendLength |-> newSendLength,
     remaining |-> delay]

\* _data arming the expiry timer with half the expiry timeout
_data_HalfExpiry(s, data) ==
    LET msg == DataText(s.sessionId, s.sendLength, data)
        newSendLength == s.sendLength + Len(data)
    IN  IF ~(Len(msg) <= LrcpMaxLength)
        THEN [s |-> s, sent |-> <<>>, armed |-> <<>>, threw |-> TRUE]
        ELSE [s |-> [s EXCEPT !.sendLength = newSendLength,
                              !.sendDataMsgs =
                                  Append(@, [msg |-> msg, length |-> Len(data)])],
              sent |-> <<msg>>,
              armed |-> <<Timer("interval", Len(s.sendDataMsgs) + 1, msg,
                                newSendLength, RetransmissionTimeout),
                          Timer("timeout", Len(s.sendDataMsgs) + 1, msg,
                                newSendLength, SessionExpiryTimeout \div 2)>>,
              threw |-> FALSE]

\* _data numbering the segment from readPos
_data_AtReadPos(s, data) ==
    LET msg == DataText(s.sessionId, s.readPos, data)
        newSendLength == s.sendLength + Len(data)
    IN  IF ~(Len(msg) <= LrcpMaxLength)
        THEN [s |-> s, sent |-> <<>>, armed |-> <<>>, threw |-> TRUE]
        ELSE [s |-> [s EXCEPT !.sendLength = newSendLength,
                              !.sendDataMsgs =
                                  Append(@, [msg |-> msg, length |-> Len(data)])],
              sent |-> <<msg>>,
              armed |-> <<Timer("interval", Len(s.sendDataMsgs) + 1, msg,
                                newSendLength, RetransmissionTimeout),
                          Timer("timeout", Len(s.sendDataMsgs) + 1, msg,
                                newSendLength, SessionExpiryTimeout)>>,
              threw |-> FALSE]

_data(s, data) ==
    LET msg == DataText(s.sessionId, s.sendLength, data)
        newSendLength == s.sendLength + Len(data)
    IN  IF ~(Len(msg) <= LrcpMaxLength)
        THEN [s |-> s, sent |-> <<>>, armed |-> <<>>, threw |-> TRUE]
        ELSE [s |-> [s EXCEPT !.sendLength = newSendLength,
                              !.sendDataMsgs =
                                  Append(@, [msg |-> msg, length |-> Len(data)])],
              sent |-> <<msg>>,
              armed |-> <<Timer("interval", Len(s.sendDataMsgs) + 1, msg,
                                newSendLength, RetransmissionTimeout),
                          Timer("timeout", Len(s.sendDataMsgs) + 1, msg,
                                newSendLength, SessionExpiryTimeout)>>,
              threw |-> FALSE]

RECURSIVE write(_, _)
write(s, payload) ==
    IF Len(payload) > MAX_PAYLOAD
    THEN LET a == _data(s, SubSeq(payload, 1, MAX_PAYLOAD))
         IN  IF a.threw THEN a
             ELSE LET b == write(a.s, SubSeq(payload, MAX_PAYLOAD + 1, Len(payload)))
                  IN  [s |-> b.s, sent |-> a.sent \o b.sent,
                       armed |-> a.armed \o b.armed, threw |-> b.threw]
    ELSE _data(s, payload)

\* next() of the async iterator, called as pull request number `pull`
next(s, pull) ==
    IF s.closed THEN [s |-> s, res |-> <<EndOfStream(pull)>>]
    ELSE IF Len(s.queue) > 0
    THEN [s |-> [s EXCEPT !.queue = Tail(@)], res |-> <<Record(pull, Head(s.queue))>>]
    ELSE [s |-> [s EXCEPT !.pendingResolver = pull], res |-> <<>>]

\* ------------------------------------------------------------ state
VARIABLES
    heap,      \* the Session objects constructed so far, in construction order
    sessions,  \* the registry: session id -> index into heap, 0 = no entry
    timers,    \* the armed timers: [obj |-> heap index, t |-> Timer]
    out,       \* the datagrams server.send was called with in the last step
    app,       \* per Session object: next() calls made, their resolutions, and
               \* whether a write() call threw (the size assertion of _data)
    age,       \* per Session object and segment: the time since _data sent it,
               \* measured up to SessionExpiryTimeout
    codec,     \* CodecSpec: a message, its wire text and what parseMsg made of it
    reader,    \* ReaderSpec: a SlidingBufferReader object
    trace      \* ReaderSpec: the bytes appended to reader so far, the number of
               \* bytes its reads returned, and the last call with its result

\* the variables of the server
server == <<heap, sessions, timers, out, app, age>>
\* the objects CodecSpec and ReaderSpec exercise on their own
units == <<codec, reader, trace>>

vars == <<heap, sessions, timers, out, app, age, codec, reader, trace>>

SessionIds == 1..MaxSessionId
Addrs == {"p1", "p2"}
Objs == 1..Len(heap)

\* time passes in steps of one retransmission period
TimeStep == RetransmissionTimeout

\* ------------------------------------------------------------ inputs
\* the byte stream every peer sends: DATA for a position always carries
\* the bytes of this stream at that position
PeerStream == <<SL, LF, LF>>

\* <<position, length>> of the segments the peer may cut its stream into
Segments ==
    {seg \in (0..Len(PeerStream)) \X (0..Len(PeerStream)) :
        seg[1] + seg[2] <= Len(PeerStream)}

PeerData ==
    {DataText(id, seg[1], SubSeq(PeerStream, seg[1] + 1, seg[1] + seg[2])) :
        id \in SessionIds, seg \in Segments}

\* n copies of one byte
Fill(c, n) == [i \in 1..n |-> c]

\* a well-formed DATA frame of n bytes in all (n >= 11), for a position the
\* peer's stream never reaches
Frame(n) == DataText(1, 9, Fill("a", n - 11))

\* the longest frame parseMsg takes
LongestFrame == Frame(LrcpMaxLength)

\* datagrams that are no LRCP message: a frame of 1000 bytes, a payload with
\* an unescaped slash or backslash, a numeric field that is empty or not
\* decimal, and a message kind LRCP does not have
Malformed ==
    {Frame(LrcpMaxLength + 1),
     DataPrefix \o <<"1", SL, "0", SL, SL, SL>>,
     DataPrefix \o <<"1", SL, "0", SL, BS, SL>>,
     AckPrefix \o <<"1", SL, SL>>,
     AckPrefix \o <<"1", SL, "x", SL>>,
     ConnectPrefix \o <<"-", "1", SL>>,
     <<SL, "h", "i", SL, "1", SL>>}

Datagrams ==
    {ConnectText(id) : id \in SessionIds}
        \cup {CloseText(id) : id \in SessionIds}
        \cup {AckText(id, n) : id \in SessionIds, n \in 0..MaxAckLength}
        \cup PeerData \cup {LongestFrame} \cup Malformed

WriteStrs == {<<SL, LF>>}

\* two sessions side by side: the ids and the datagrams of IsoSpec
IsoIds == 1..(MaxSessionId + 1)

IsoDatagrams ==
    {ConnectText(id) : id \in IsoIds}
        \cup {CloseText(id) : id \in IsoIds}
        \cup {AckText(id, n) : id \in IsoIds, n \in 0..MaxAckLength}
        \cup {DataText(id, seg[1], SubSeq(PeerStream, seg[1] + 1, seg[1] + seg[2])) :
                 id \in IsoIds, seg \in Segments}

\* parseMsg of every inbound datagram
Parsed == [buf \in Datagrams \cup IsoDatagrams |-> parseMsg(buf)]

DataDatagrams == {buf \in Datagrams : Parsed[buf].type = "data"}
AckDatagrams == {buf \in Datagrams : Parsed[buf].type = "ack"}

\* segments written / next() calls made so far, over all Session objects
RECURSIVE SumOver(_, _)
SumOver(f, n) == IF n = 0 THEN 0 ELSE f[n] + SumOver(f, n - 1)
TotalSegments == SumOver([o \in 1..Len(heap) |-> Len(heap[o].sendDataMsgs)], Len(heap))
TotalPulls == SumOver([o \in 1..Len(app) |-> app[o].pulls], Len(app))

\* the bounds of a run: constructions, writes and next() calls stop at them
Bounded ==
    /\ Len(heap) <= MaxSessions
    /\ TotalSegments <= MaxSegments
    /\ TotalPulls <= MaxPulls

\* ------------------------------------------------------------ actions
Send(rinfo, msgs) == [i \in 1..Len(msgs) |-> [to |-> rinfo, msg |-> msgs[i]]]

sendClose(rinfo, sessionId) == <<[to |-> rinfo, msg |-> CloseText(sessionId)]>>

Resolve(o, res) == [app EXCEPT ![o].results = @ \o res]

Live(o) == o # 0 /\ ~heap[o].closed

\* CodecSpec and ReaderSpec not running
NoCodec == [stage |-> "none"]
NoNull == [n |-> 0 - 1, unread |-> <<>>]

NoTrace == [appended |-> <<>>, taken |-> 0, last |-> [op |-> "none"], null |-> NoNull]

Init ==
    /\ heap = <<>>
    /\ sessions = [id \in SessionIds |-> 0]
    /\ timers = {}
    /\ out = <<>>
    /\ app = <<>>
    /\ age = <<>>
    /\ codec = NoCodec
    /\ reader = SlidingBufferReader(0)
    /\ trace = NoTrace

RecvInvalid(buf, rinfo) ==
    /\ Parsed[buf] = NullMsg
    /\ out' = <<>>
    /\ UNCHANGED <<heap, sessions, timers, app, age>>
    /\ UNCHANGED units

\* the connect case reopening the closed Session it finds in the registry
RecvConnect_CarryOver(buf, rinfo) ==
    LET msg == Parsed[buf]
    IN  /\ msg.type = "connect"
        /\ IF ~Live(sessions[msg.sessionId])
           THEN /\ heap' = Append(heap,
                              IF sessions[msg.sessionId] = 0
                              THEN NewSession(rinfo, msg.sessionId)
                              ELSE [heap[sessions[msg.sessionId]] EXCEPT
                                        !.closed = FALSE, !.rinfo = rinfo])
                /\ sessions' = [sessions EXCEPT ![msg.sessionId] = Len(heap) + 1]
                /\ app' = Append(app, [pulls |-> 0, results |-> <<>>, threw |-> FALSE])
                /\ age' = Append(age, <<>>)
                /\ out' = Send(rinfo, <<AckText(msg.sessionId, 0)>>)
                /\ UNCHANGED timers
           ELSE /\ out' = Send(heap[sessions[msg.sessionId]].rinfo,
                               <<_ack(heap[sessions[msg.sessionId]], 0)>>)
                /\ UNCHANGED <<heap, sessions, timers, app, age>>
        /\ UNCHANGED units

\* the connect case constructing a Session also when the registered one is open
RecvConnect_Reset(buf, rinfo) ==
    LET msg == Parsed[buf]
    IN  /\ msg.type = "connect"
        /\ IF sessions[msg.sessionId] = 0
           THEN /\ heap' = Append(heap, NewSession(rinfo, msg.sessionId))
                /\ sessions' = [sessions EXCEPT ![msg.sessionId] = Len(heap) + 1]
                /\ app' = Append(app, [pulls |-> 0, results |-> <<>>, threw |-> FALSE])
                /\ age' = Append(age, <<>>)
                /\ out' = Send(rinfo, <<AckText(msg.sessionId, 0)>>)
                /\ UNCHANGED timers
           ELSE /\ heap' = [heap EXCEPT ![sessions[msg.sessionId]] =
                                            NewSession(rinfo, msg.sessionId)]
                /\ out' = Send(rinfo, <<AckText(msg.sessionId, 0)>>)
                /\ UNCHANGED <<sessions, timers, app, age>>
        /\ UNCHANGED units

RecvConnect(buf, rinfo) ==
    LET msg == Parsed[buf]
    IN  /\ msg.type = "connect"
        /\ IF ~Live(sessions[msg.sessionId])
           THEN /\ heap' = Append(heap, NewSession(rinfo, msg.sessionId))
                /\ sessions' = [sessions EXCEPT ![msg.sessionId] = Len(heap) + 1]
                /\ app' = Append(app, [pulls |-> 0, results |-> <<>>, threw |-> FALSE])
                /\ age' = Append(age, <<>>)
                /\ out' = Send(rinfo, <<AckText(msg.sessionId, 0)>>)
                /\ UNCHANGED timers
           ELSE /\ out' = Send(heap[sessions[msg.sessionId]].rinfo,
                               <<_ack(heap[sessions[msg.sessionId]], 0)>>)
                /\ UNCHANGED <<heap, sessions, timers, app, age>>
        /\ UNCHANGED units

\* the data case sending the Session's ACK to the sender of the DATA
RecvData_ReplyToSender(buf, rinfo) ==
    LET msg == Parsed[buf]
    IN  /\ msg.type = "data"
        /\ LET o == sessions[msg.sessionId]
           IN  IF ~Live(o)
               THEN /\ out' = sendClose(rinfo, msg.sessionId)
                    /\ UNCHANGED <<heap, sessions, timers, app, age>>
               ELSE LET r == _onData(heap[o], msg.pos, msg.data)
                    IN  /\ heap' = [heap EXCEPT ![o] = r.s]
                        /\ out' = Send(rinfo, r.sent)
                        /\ app' = Resolve(o, r.res)
                        /\ UNCHANGED <<sessions, timers, age>>
        /\ UNCHANGED units

RecvData(buf, rinfo) ==
    LET msg == Parsed[buf]
    IN  /\ msg.type = "data"
        /\ LET o == sessions[msg.sessionId]
           IN  IF ~Live(o)
               THEN /\ out' = sendClose(rinfo, msg.sessionId)
                    /\ UNCHANGED <<heap, sessions, timers, app, age>>
               ELSE LET r == _onData(heap[o], msg.pos, msg.data)
                    IN  /\ heap' = [heap EXCEPT ![o] = r.s]
                        /\ out' = Send(heap[o].rinfo, r.sent)
                        /\ app' = Resolve(o, r.res)
                        /\ UNCHANGED <<sessions, timers, age>>
        /\ UNCHANGED units

\* the ack case dropping an ACK for an id without an open session
RecvAck_NoReply(buf, rinfo) ==
    LET msg == Parsed[buf]
    IN  /\ msg.type = "ack"
        /\ LET o == sessions[msg.sessionId]
           IN  IF ~Live(o)
               THEN /\ out' = <<>>
                    /\ UNCHANGED <<heap, sessions, timers, app, age>>
               ELSE LET r == _onAck(heap[o], msg.length)
                    IN  /\ heap' = [heap EXCEPT ![o] = r.s]
                        /\ out' = Send(heap[o].rinfo, r.sent)
                                    \o (IF r.s.closed
                                        THEN sendClose(rinfo, msg.sessionId)
                                        ELSE <<>>)
                        /\ app' = Resolve(o, r.res)
                        /\ UNCHANGED <<sessions, timers, age>>
        /\ UNCHANGED units

RecvAck(buf, rinfo) ==
    LET msg == Parsed[buf]
    IN  /\ msg.type = "ack"
        /\ LET o == sessions[msg.sessionId]
           IN  IF ~Live(o)
               THEN /\ out' = sendClose(rinfo, msg.sessionId)
                    /\ UNCHANGED <<heap, sessions, timers, app, age>>
               ELSE LET r == _onAck(heap[o], msg.length)
                    IN  /\ heap' = [heap EXCEPT ![o] = r.s]
                        /\ out' = Send(heap[o].rinfo, r.sent)
                                    \o (IF r.s.closed
                                        THEN sendClose(rinfo, msg.sessionId)
                                        ELSE <<>>)
                        /\ app' = Resolve(o, r.res)
                        /\ UNCHANGED <<sessions, timers, age>>
        /\ UNCHANGED units

\* the close case emptying the registry (sessions.clear())
RecvClose_All(buf, rinfo) ==
    LET msg == Parsed[buf]
    IN  /\ msg.type = "close"
        /\ out' = sendClose(rinfo, msg.sessionId)
        /\ sessions' = [id \in DOMAIN sessions |-> 0]
        /\ UNCHANGED <<heap, timers, app, age>>
        /\ UNCHANGED units

RecvClose(buf, rinfo) ==
    LET msg == Parsed[buf]
    IN  /\ msg.type = "close"
        /\ out' = sendClose(rinfo, msg.sessionId)
        /\ sessions' = [sessions EXCEPT ![msg.sessionId] = 0]
        /\ UNCHANGED <<heap, timers, app, age>>
        /\ UNCHANGED units

\* the application calls next() on the iterator of Session object o
AppNext(o) ==
    /\ LET r == next(heap[o], app[o].pulls + 1)
       IN  /\ heap' = [heap EXCEPT ![o] = r.s]
           /\ app' = [app EXCEPT ![o].pulls = @ + 1, ![o].results = @ \o r.res]
    /\ out' = <<>>
    /\ UNCHANGED <<sessions, timers, age>>
    /\ UNCHANGED units

\* the application calls write(str) on Session object o
AppWrite(o, str) ==
    LET r == write(heap[o], str)
    IN  /\ heap' = [heap EXCEPT ![o] = r.s]
        /\ timers' = timers \cup {[obj |-> o, t |-> r.armed[i]] : i \in 1..Len(r.armed)}
        /\ out' = Send(heap[o].rinfo, r.sent)
        /\ age' = [age EXCEPT ![o] = @ \o [i \in 1..(Len(r.s.sendDataMsgs) - Len(@)) |-> 0]]
        /\ app' = [app EXCEPT ![o].threw = @ \/ r.threw]
        /\ UNCHANGED sessions
        /\ UNCHANGED units

\* the setInterval callback resending without reading maxAckLength
IntervalFire_NoCheck(tm) ==
    /\ tm.t.kind = "interval"
    /\ out' = Send(heap[tm.obj].rinfo, <<tm.t.msg>>)
    /\ timers' = (timers \ {tm})
                    \cup {[tm EXCEPT !.t.remaining = RetransmissionTimeout]}
    /\ UNCHANGED <<heap, sessions, app, age>>
    /\ UNCHANGED units

\* the setInterval callback of a segment runs
IntervalFire(tm) ==
    /\ tm.t.kind = "interval"
    /\ IF heap[tm.obj].maxAckLength < tm.t.newSendLength
       THEN /\ out' = Send(heap[tm.obj].rinfo, <<tm.t.msg>>)
            /\ timers' = (timers \ {tm})
                            \cup {[tm EXCEPT !.t.remaining = RetransmissionTimeout]}
       ELSE /\ out' = <<>>
            /\ timers' = timers \ {tm}
    /\ UNCHANGED <<heap, sessions, app, age>>
    /\ UNCHANGED units

\* the setTimeout callback also deleting the registry entry when it closes
TimeoutFire_Unregister(tm) ==
    /\ tm.t.kind = "timeout"
    /\ IF heap[tm.obj].maxAckLength < tm.t.newSendLength
       THEN LET r == _close(heap[tm.obj])
            IN  /\ heap' = [heap EXCEPT ![tm.obj] = r.s]
                /\ app' = Resolve(tm.obj, r.res)
                /\ sessions' = [sessions EXCEPT ![heap[tm.obj].sessionId] = 0]
       ELSE UNCHANGED <<heap, app, sessions>>
    /\ timers' = timers \ {tm}
    /\ out' = <<>>
    /\ UNCHANGED age
    /\ UNCHANGED units

\* the setTimeout callback of a segment runs
TimeoutFire(tm) ==
    /\ tm.t.kind = "timeout"
    /\ IF heap[tm.obj].maxAckLength < tm.t.newSendLength
       THEN LET r == _close(heap[tm.obj])
            IN  /\ heap' = [heap EXCEPT ![tm.obj] = r.s]
                /\ app' = Resolve(tm.obj, r.res)
       ELSE UNCHANGED <<heap, app>>
    /\ timers' = timers \ {tm}
    /\ out' = <<>>
    /\ UNCHANGED <<sessions, age>>
    /\ UNCHANGED units

\* time passes; a timer that is due runs before time passes further
Tick ==
    /\ timers # {}
    /\ \A tm \in timers : tm.t.remaining >= TimeStep
    /\ timers' = {[tm EXCEPT !.t.remaining = @ - TimeStep] : tm \in timers}
    /\ age' = [o \in DOMAIN age |->
                [k \in DOMAIN age[o] |->
                    IF age[o][k] + TimeStep < SessionExpiryTimeout
                    THEN age[o][k] + TimeStep ELSE SessionExpiryTimeout]]
    /\ out' = <<>>
    /\ UNCHANGED <<heap, sessions, app>>
    /\ UNCHANGED units

Next ==
    \/ \E buf \in Datagrams, rinfo \in Addrs : RecvInvalid(buf, rinfo)
    \/ \E buf \in Datagrams, rinfo \in Addrs : RecvConnect(buf, rinfo) /\ Bounded'
    \/ \E buf \in Datagrams, rinfo \in Addrs : RecvData(buf, rinfo)
    \/ \E buf \in Datagrams, rinfo \in Addrs : RecvAck(buf, rinfo)
    \/ \E buf \in Datagrams, rinfo \in Addrs : RecvClose(buf, rinfo)
    \/ \E o \in Objs : AppNext(o) /\ Bounded'
    \/ \E o \in Objs, str \in WriteStrs : AppWrite(o, str) /\ Bounded'
    \/ \E tm \in timers : IntervalFire(tm)
    \/ \E tm \in timers : TimeoutFire(tm)

Spec == Init /\ [][Next]_vars

\* ------------------------------------------------------------ long writes
\* write() with strings around the chunk size and the frame limit: n copies
\* of one byte, plain or one that escapeData doubles
LongLengths ==
    {(LrcpMaxLength - 11) \div 2, (LrcpMaxLength - 11) \div 2 + 1,
     MAX_PAYLOAD, MAX_PAYLOAD + 1}

LongStrs == {Fill(c, n) : c \in {"a", SL}, n \in LongLengths}

WriteNext ==
    \/ \E buf \in Datagrams, rinfo \in Addrs : RecvConnect(buf, rinfo) /\ Bounded'
    \/ \E o \in Objs, str \in LongStrs : AppWrite(o, str) /\ Bounded'

WriteSpec == Init /\ [][WriteNext]_vars

\* ------------------------------------------------------------ timed
Due(tm) == tm.t.remaining = 0

TimedNext ==
    \/ \E buf \in Datagrams, rinfo \in Addrs : RecvConnect(buf, rinfo) /\ Bounded'
    \/ \E buf \in Datagrams, rinfo \in Addrs : RecvAck(buf, rinfo)
    \/ \E buf \in Datagrams, rinfo \in Addrs : RecvClose(buf, rinfo)
    \/ \E o \in Objs, str \in WriteStrs : AppWrite(o, str) /\ Bounded'
    \/ \E tm \in timers : Due(tm) /\ IntervalFire(tm)
    \/ \E tm \in timers : Due(tm) /\ TimeoutFire(tm)
    \/ Tick

\* the event loop runs a due callback, and time does not stop
TimedSpec ==
    /\ Init
    /\ [][TimedNext]_vars
    /\ WF_vars(\E tm \in timers : Due(tm) /\ IntervalFire(tm))
    /\ WF_vars(\E tm \in timers : Due(tm) /\ TimeoutFire(tm))
    /\ WF_vars(Tick)


\* ------------------------------------------------------------ codec alone
\* The codec on its own: a message is encoded as the server writes it on the
\* wire, and the wire text is decoded by parseMsg.
CodecBytes == {SL, BS, "a", LF}

\* every payload of up to MaxPayloadLen bytes, and the longest payload whose
\* DATA frame, with ten-digit numbers, still has 999 bytes
Payloads ==
    UNION {[1..n -> CodecBytes] : n \in 0..MaxPayloadLen}
        \cup {Fill("a", LrcpMaxLength - 29)}

\* session ids, positions and lengths: the ends of 0..2^31-1 and one between
CodecNumbers == {0, 17, 2147483647}

Messages ==
    {[type |-> "connect", sessionId |-> id] : id \in CodecNumbers}
        \cup {[type |-> "close", sessionId |-> id] : id \in CodecNumbers}
        \cup {[type |-> "data", sessionId |-> id, pos |-> pos, data |-> data] :
                 id \in CodecNumbers, pos \in CodecNumbers, data \in Payloads}
        \cup {[type |-> "ack", sessionId |-> id, length |-> length] :
                 id \in CodecNumbers, length \in CodecNumbers}

\* the wire text of a message
encode(m) ==
    CASE m.type = "connect" -> ConnectText(m.sessionId)
      [] m.type = "close" -> CloseText(m.sessionId)
      [] m.type = "data" -> DataText(m.sessionId, m.pos, m.data)
      [] m.type = "ack" -> AckText(m.sessionId, m.length)

CodecInit ==
    /\ heap = <<>>
    /\ sessions = [id \in SessionIds |-> 0]
    /\ timers = {}
    /\ out = <<>>
    /\ app = <<>>
    /\ age = <<>>
    /\ reader = SlidingBufferReader(0)
    /\ trace = NoTrace
    /\ \E m \in Messages :
          /\ Len(encode(m)) < 1000
          /\ codec = [stage |-> "new", m |-> m]

\* the message is written on the wire; a payload is escaped
Encode ==
    /\ codec.stage = "new"
    /\ codec' = [stage |-> "encoded", m |-> codec.m,
                 wire |-> encode(codec.m),
                 escaped |-> IF codec.m.type = "data"
                             THEN escapeData(codec.m.data) ELSE <<>>]
    /\ UNCHANGED <<server, reader, trace>>

\* the wire text is parsed; the escaped payload is checked and unescaped
Decode ==
    /\ codec.stage = "encoded"
    /\ codec' = [stage |-> "decoded", m |-> codec.m,
                 wire |-> codec.wire, escaped |-> codec.escaped,
                 decoded |-> parseMsg(codec.wire),
                 valid |-> isDataValid(codec.escaped),
                 unescaped |-> unescapeData(codec.escaped)]
    /\ UNCHANGED <<server, reader, trace>>

CodecNext == Encode \/ Decode

CodecSpec == CodecInit /\ [][CodecNext]_vars

\* ------------------------------------------------------------ reader alone
\* A SlidingBufferReader on its own, driven as src/test/sliding-buffer-reader.test.ts
\* drives it (append and read) and as LineReader drives it (readLine).
\* trace records what the caller saw: the bytes appended so far, how many
\* were taken, the last call with the object before it, and the last read
\* that returned null with the unread bytes at that time.
ReaderBytes == {"a", "\r", LF}

Chunks == UNION {[1..n -> ReaderBytes] : n \in 0..MaxChunk}

\* the unread bytes of the object
Unread(r) == peek(r, available(r)).bytes

ReaderInit ==
    /\ heap = <<>>
    /\ sessions = [id \in SessionIds |-> 0]
    /\ timers = {}
    /\ out = <<>>
    /\ app = <<>>
    /\ age = <<>>
    /\ codec = NoCodec
    /\ trace = NoTrace
    /\ \E initSize \in 0..MaxInitSize : reader = SlidingBufferReader(initSize)

AppendChunk(chunk) ==
    /\ Len(trace.appended) + Len(chunk) <= MaxAppended
    /\ reader' = SlidingBufferReader_append(reader, chunk)
    /\ trace' = [trace EXCEPT !.appended = @ \o chunk,
                              !.last = [op |-> "append", chunk |-> chunk,
                                        before |-> reader]]
    /\ UNCHANGED <<server, codec>>

Read(n) ==
    LET got == read(reader, n)
    IN  /\ reader' = got.r
        /\ trace' = [trace EXCEPT
                        !.taken = IF got.ok THEN @ + n ELSE @,
                        !.last = [op |-> "read", n |-> n, ok |-> got.ok,
                                  bytes |-> got.bytes, before |-> reader,
                                  retry |-> trace.null],
                        !.null = IF got.ok THEN NoNull
                                 ELSE [n |-> n, unread |-> Unread(reader)]]
        /\ UNCHANGED <<server, codec>>

ReadLine ==
    LET got == LineReader_readLine(reader)
    IN  /\ reader' = got.r
        /\ trace' = [trace EXCEPT
                        !.taken = IF got.ok THEN @ + Len(got.bytes) + 1 ELSE @,
                        !.last = [op |-> "readLine", ok |-> got.ok,
                                  bytes |-> got.bytes, before |-> reader],
                        !.null = IF got.ok THEN NoNull ELSE @]
        /\ UNCHANGED <<server, codec>>

ReaderNext ==
    \/ \E chunk \in Chunks : AppendChunk(chunk)
    \/ \E n \in 0..MaxRead : Read(n)
    \/ ReadLine

ReaderSpec == ReaderInit /\ [][ReaderNext]_vars

\* ------------------------------------------------------------ fair peer
\* The consumer of src/07/main.ts: a for await loop over the Session, which
\* calls next() again only after the previous call was resolved, and stops at
\* end-of-stream.
Pull(o) ==
    /\ o \in Objs
    /\ heap[o].pendingResolver = 0
    /\ \A i \in 1..Len(app[o].results) : ~app[o].results[i].done
    /\ app[o].pulls < MaxPulls
    /\ AppNext(o)

\* a DATA of the peer that carries the next bytes of its stream reaches the
\* open session registered under id
InOrderData(id) ==
    \E buf \in DataDatagrams, rinfo \in Addrs :
        /\ Parsed[buf].sessionId = id
        /\ Live(sessions[id])
        /\ Parsed[buf].pos = heap[sessions[id]].readPos
        /\ Len(Parsed[buf].data) > 0
        /\ RecvData(buf, rinfo)

LiveNext ==
    \/ \E buf \in Datagrams, rinfo \in Addrs : RecvConnect(buf, rinfo) /\ Bounded'
    \/ \E buf \in Datagrams, rinfo \in Addrs : RecvData(buf, rinfo)
    \/ \E buf \in Datagrams, rinfo \in Addrs : RecvAck(buf, rinfo)
    \/ \E buf \in Datagrams, rinfo \in Addrs : RecvClose(buf, rinfo)
    \/ \E o \in Objs : Pull(o)

\* the peer retransmits what was not acknowledged and the channel delivers a
\* datagram that is sent again and again; the consumer keeps pulling
LiveSpec ==
    /\ Init
    /\ [][LiveNext]_vars
    /\ \A id \in SessionIds : WF_vars(InOrderData(id))
    /\ \A o \in 1..MaxSessions : WF_vars(Pull(o))

\* ------------------------------------------------------------ id reuse
\* A session id used again after its session was closed: up to MaxIncarnations
\* Session objects, each written to at most once and reading the peer's
\* stream in order, closed by a CLOSE of the peer, by an ACK beyond sendLength or by the expiry timer.
ReuseNext ==
    \/ \E buf \in Datagrams, rinfo \in Addrs :
          RecvConnect(buf, rinfo) /\ Len(heap') <= MaxIncarnations
    \/ \E id \in SessionIds : InOrderData(id)
    \/ \E buf \in Datagrams, rinfo \in Addrs : RecvAck(buf, rinfo)
    \/ \E buf \in Datagrams, rinfo \in Addrs : RecvClose(buf, rinfo)
    \/ \E o \in Objs, str \in WriteStrs :
          AppWrite(o, str) /\ Len(heap'[o].sendDataMsgs) <= 1
    \/ \E tm \in timers : TimeoutFire(tm)

ReuseSpec == Init /\ [][ReuseNext]_vars

\* ------------------------------------------------------------ roaming peer
\* A peer that changes its address: every session is created by a CONNECT
\* from CreatorAddr, and every later datagram, CONNECTs for the open session
\* included, comes from RoamAddr.
CreatorAddr == "p1"
RoamAddr == "p2"

RoamNext ==
    \/ \E buf \in Datagrams :
          /\ Parsed[buf].type = "connect"
          /\ ~Live(sessions[Parsed[buf].sessionId])
          /\ RecvConnect(buf, CreatorAddr)
          /\ Bounded'
    \/ \E buf \in Datagrams :
          /\ Parsed[buf].type = "connect"
          /\ Live(sessions[Parsed[buf].sessionId])
          /\ RecvConnect(buf, RoamAddr)
    \/ \E buf \in Datagrams : RecvData(buf, RoamAddr)
    \/ \E buf \in Datagrams : RecvAck(buf, RoamAddr)
    \/ \E buf \in Datagrams : RecvClose(buf, RoamAddr)
    \/ \E o \in Objs, str \in WriteStrs : AppWrite(o, str) /\ Bounded'
    \/ \E tm \in timers : IntervalFire(tm)
    \/ \E tm \in timers : TimeoutFire(tm)

RoamSpec == Init /\ [][RoamNext]_vars

\* ------------------------------------------------------------ split records
\* One session whose peer sends a stream with an empty record, two line feeds
\* in a row and bytes after the last line feed, cut into segments anywhere,
\* while the application pulls. trace keeps the last DATA handled together
\* with the Record Bridge before it.
SplitStream == <<"a", LF, LF, "b", LF, "c">>

SplitSegments ==
    {seg \in (0..Len(SplitStream)) \X (1..Len(SplitStream)) :
        seg[1] + seg[2] <= Len(SplitStream)}

\* parseMsg of the DATA datagram that carries segment seg of SplitStream
SplitParsed ==
    [id \in SessionIds |->
        [seg \in SplitSegments |->
            parseMsg(DataText(id, seg[1],
                              SubSeq(SplitStream, seg[1] + 1, seg[1] + seg[2])))]]

\* the data case of the dispatcher for an open session, on the DATA datagram
\* that carries segment seg of SplitStream
SplitData(id, seg) ==
    LET msg == SplitParsed[id][seg]
        o == sessions[id]
    IN  /\ Live(o)
        /\ LET r == _onData(heap[o], msg.pos, msg.data)
           IN  /\ heap' = [heap EXCEPT ![o] = r.s]
               /\ out' = Send(heap[o].rinfo, r.sent)
               /\ app' = Resolve(o, r.res)
               /\ trace' = [trace EXCEPT
                               !.last = [op |-> "data", obj |-> o,
                                         pos |-> msg.pos, data |-> msg.data,
                                         readPos |-> heap[o].readPos,
                                         lineReader |-> heap[o].lineReader,
                                         queue |-> heap[o].queue,
                                         results |-> app[o].results]]
        /\ UNCHANGED <<sessions, timers, age, codec, reader>>

SplitNext ==
    \/ \E buf \in Datagrams, rinfo \in Addrs : RecvConnect(buf, rinfo) /\ Bounded'
    \/ \E id \in SessionIds, seg \in SplitSegments : SplitData(id, seg)
    \/ \E o \in Objs : AppNext(o) /\ Bounded'

SplitSpec == Init /\ [][SplitNext]_vars

\* ------------------------------------------------------------ two sessions
\* Sessions of different ids in one server, each id connected once and from
\* one address. The peer of QuietId follows the protocol: it connects and
\* sends its stream in order, and its Session is pulled from once, written to
\* once and has its segment resent. The other ids receive any ACK and CLOSE
\* as well, and their expiry timers fire.
QuietId == MaxSessionId + 1

IsoInit ==
    /\ heap = <<>>
    /\ sessions = [id \in IsoIds |-> 0]
    /\ timers = {}
    /\ out = <<>>
    /\ app = <<>>
    /\ age = <<>>
    /\ codec = NoCodec
    /\ reader = SlidingBufferReader(0)
    /\ trace = NoTrace

IsoNext ==
    \/ \E buf \in IsoDatagrams :
          /\ RecvConnect(buf, CreatorAddr)
          /\ \A o1 \in 1..Len(heap'), o2 \in 1..Len(heap') :
                heap'[o1].sessionId = heap'[o2].sessionId => o1 = o2
    \/ \E buf \in IsoDatagrams :
          /\ Parsed[buf].type = "data"
          /\ Live(sessions[Parsed[buf].sessionId])
          /\ Parsed[buf].pos = heap[sessions[Parsed[buf].sessionId]].readPos
          /\ Len(Parsed[buf].data) > 0
          /\ RecvData(buf, CreatorAddr)
    \/ \E buf \in IsoDatagrams :
          /\ Parsed[buf].type = "ack"
          /\ Parsed[buf].sessionId # QuietId
          /\ RecvAck(buf, CreatorAddr)
    \/ \E buf \in IsoDatagrams :
          /\ Parsed[buf].type = "close"
          /\ Parsed[buf].sessionId # QuietId
          /\ RecvClose(buf, CreatorAddr)
    \/ \E o \in Objs : app[o].pulls = 0 /\ AppNext(o)
    \/ \E o \in Objs, str \in WriteStrs :
          heap[o].sendDataMsgs = <<>> /\ AppWrite(o, str)
    \/ \E tm \in timers : IntervalFire(tm)
    \/ \E tm \in timers :
          heap[tm.obj].sessionId # QuietId /\ TimeoutFire(tm)

IsoSpec == IsoInit /\ [][IsoNext]_vars

\* ------------------------------------------------------------ properties
IsPrefix(a, b) == Len(a) <= Len(b) /\ a = SubSeq(b, 1, Len(a))

\* the records of the peer's stream: the bytes between consecutive line feeds
LFPositions == {i \in 1..Len(PeerStream) : PeerStream[i] = LF}
NthLF(k) == CHOOSE i \in LFPositions : Cardinality({j \in LFPositions : j < i}) = k - 1
StreamRecords ==
    [k \in 1..Cardinality(LFPositions) |->
        SubSeq(PeerStream, IF k = 1 THEN 1 ELSE NthLF(k - 1) + 1, NthLF(k) - 1)]

Values(results) == [i \in 1..Len(results) |-> results[i].value]

\* the records next() has returned on Session object o, in the order returned
Delivered(o) == Values(SelectSeq(app[o].results, LAMBDA r : ~r.done))

AckTo(o, pos) == <<[to |-> heap[o].rinfo, msg |-> AckText(heap[o].sessionId, pos)]>>

\* C1: the records handed to the application, followed by those waiting in the
\* queue, are always a prefix of the records of the peer's stream, in stream
\* order, whatever DATA datagrams arrive, repeat or are lost.
C1_InOrderDelivery ==
    \A o \in Objs : IsPrefix(Delivered(o) \o heap[o].queue, StreamRecords)

\* every record of the stream has been handed to the application
C1_Witness ==
    \E o \in Objs : Delivered(o) = StreamRecords /\ Len(StreamRecords) >= 2

RECURSIVE Terminated(_)
Terminated(lines) ==
    IF lines = <<>> THEN <<>> ELSE Head(lines) \o <<LF>> \o Terminated(Tail(lines))

\* In this step the Record Bridge of o took `data`: the bytes it held plus data
\* are the records it resolved or queued in this step, each with its line
\* feed, plus the bytes it holds now, which have no line feed.
Fed(o, data) ==
    LET resolved == SubSeq(app'[o].results, Len(app[o].results) + 1, Len(app'[o].results))
        queued == SubSeq(heap'[o].queue, Len(heap[o].queue) + 1, Len(heap'[o].queue))
    IN  /\ IsPrefix(app[o].results, app'[o].results)
        /\ IsPrefix(heap[o].queue, heap'[o].queue)
        /\ \A i \in 1..Len(resolved) : ~resolved[i].done
        /\ heap[o].lineReader \o data
              = Terminated(Values(resolved) \o queued) \o heap'[o].lineReader
        /\ ~includes(heap'[o].lineReader, LF)

\* C2: a DATA handled for an open session sends exactly one ACK, to the session's
\* address, carrying receiveOffset after handling; when its position equals
\* receiveOffset, receiveOffset advances by the payload length and the payload
\* is fed to the Record Bridge.
C2_InOrderDataAcked ==
    [][\A buf \in DataDatagrams, rinfo \in Addrs :
          (Live(sessions[Parsed[buf].sessionId]) /\ RecvData(buf, rinfo)) =>
              LET msg == Parsed[buf]
                  o == sessions[msg.sessionId]
              IN  /\ out' = AckTo(o, heap'[o].readPos)
                  /\ (msg.pos = heap[o].readPos) =>
                        /\ heap'[o].readPos = heap[o].readPos + Len(msg.data)
                        /\ Fed(o, msg.data)]_vars

\* the whole stream has been accepted and the last datagram was acknowledged
C2_Witness ==
    \E o \in Objs : /\ heap[o].readPos = Len(PeerStream)
                    /\ out = AckTo(o, Len(PeerStream))
                    /\ Delivered(o) \o heap[o].queue = StreamRecords

\* C3: a DATA for an open session whose position differs from receiveOffset
\* sends one ACK echoing receiveOffset and changes no Session, no timer, no
\* registry entry and resolves no pull request.
C3_OutOfOrderDataOnlyAcked ==
    [][\A buf \in DataDatagrams, rinfo \in Addrs :
          (/\ Live(sessions[Parsed[buf].sessionId])
           /\ Parsed[buf].pos # heap[sessions[Parsed[buf].sessionId]].readPos
           /\ RecvData(buf, rinfo)) =>
              /\ out' = AckTo(sessions[Parsed[buf].sessionId],
                              heap[sessions[Parsed[buf].sessionId]].readPos)
              /\ UNCHANGED <<heap, sessions, timers, app, age>>]_vars

\* an ACK echoing receiveOffset in the middle of the stream, with a consumer
\* suspended, bytes accumulated and a segment outstanding
C3_Witness ==
    \E o \in Objs : /\ heap[o].readPos = 1
                    /\ out = AckTo(o, 1)
                    /\ heap[o].pendingResolver # 0
                    /\ heap[o].lineReader # <<>>
                    /\ heap[o].sendDataMsgs # <<>>
                    /\ \E tm \in timers : tm.obj = o

\* the cumulative end offset of segment k of Session object o
RECURSIVE EndOffset(_, _)
EndOffset(o, k) == IF k = 0 THEN 0 ELSE EndOffset(o, k - 1) + heap[o].sendDataMsgs[k].length

Unacked(o, k) == heap[o].maxAckLength < EndOffset(o, k)

Registered(o) == sessions[heap[o].sessionId] = o

TimerOf(o, k, kind) ==
    {tm \in timers : tm.obj = o /\ tm.t.seg = k /\ tm.t.kind = kind}

\* while a segment of an open session is unacknowledged, its retransmission
\* timer is armed and runs once per retransmission period, and its expiry timer
\* is armed for the rest of the expiry timeout since the segment was sent
TimersArmed ==
    \A o \in Objs : \A k \in 1..Len(heap[o].sendDataMsgs) :
        (~heap[o].closed /\ Unacked(o, k)) =>
            /\ \E tm \in TimerOf(o, k, "interval") :
                  /\ tm.t.remaining <= RetransmissionTimeout
                  /\ (age[o][k] + tm.t.remaining) % RetransmissionTimeout = 0
            /\ \E tm \in TimerOf(o, k, "timeout") :
                  tm.t.remaining = SessionExpiryTimeout - age[o][k]

\* a retransmission tick of an unacknowledged segment of an open session sends
\* the bytes the segment was first sent with, and nothing else
ResendsSameBytes ==
    \A tm \in timers :
        (/\ ~heap[tm.obj].closed
         /\ Unacked(tm.obj, tm.t.seg)
         /\ Due(tm) /\ IntervalFire(tm)) =>
            out' = <<[to |-> heap[tm.obj].rinfo,
                      msg |-> heap[tm.obj].sendDataMsgs[tm.t.seg].msg]>>

\* the expiry timer closes a session only when the expiry timeout has passed
\* since the segment was sent
ExpiresOnTime ==
    \A tm \in timers :
        (/\ Due(tm) /\ TimeoutFire(tm)
         /\ ~heap[tm.obj].closed /\ heap'[tm.obj].closed) =>
            /\ age[tm.obj][tm.t.seg] = SessionExpiryTimeout
            /\ Unacked(tm.obj, tm.t.seg)

Written(o, k) == o <= Len(heap) /\ k <= Len(heap[o].sendDataMsgs)

\* C4: an unacknowledged segment of an open session is resent with the same
\* bytes on every 3000 ms tick; 60000 ms after its original send the session
\* closes; so every written segment is eventually acknowledged or its session
\* is closed.
C4_ResentUntilAckedOrExpired ==
    /\ []TimersArmed
    /\ [][ResendsSameBytes /\ ExpiresOnTime]_vars
    /\ \A o \in 1..MaxSessions : \A k \in 1..MaxSegments :
          Written(o, k) ~> (Written(o, k) /\ (heap[o].closed \/ ~Unacked(o, k)))

\* a session closed by expiry, its segment never acknowledged
C4_Witness ==
    \E o \in Objs : /\ heap[o].closed
                    /\ heap[o].sendDataMsgs # <<>>
                    /\ heap[o].maxAckLength = 0
                    /\ age[o][1] = SessionExpiryTimeout
                    /\ TimerOf(o, 1, "timeout") = {}

\* C5: the step that closes a session cancels its timers: it leaves no
\* retransmission timer of that session that will still send a datagram.
C5_CloseCancelsTimers ==
    [][\A o \in Objs :
          (~heap[o].closed /\ heap'[o].closed) =>
              \A tm \in timers' :
                  ~(/\ tm.obj = o
                    /\ tm.t.kind = "interval"
                    /\ heap'[o].maxAckLength < tm.t.newSendLength)]_vars

\* C6: once a CLOSE has removed a session from the registry, no timer of that
\* session sends DATA, and a DATA for that id is answered with /close/<id>/.
C6_CloseStopsRetransmission ==
    [][/\ \A tm \in timers :
             ~Registered(tm.obj) => ~(IntervalFire(tm) /\ out' # <<>>)
       /\ \A buf \in DataDatagrams, rinfo \in Addrs :
             (~Live(sessions[Parsed[buf].sessionId]) /\ RecvData(buf, rinfo)) =>
                 out' = sendClose(rinfo, Parsed[buf].sessionId)]_vars

\* C7: a Session is either open and registered, or closed and absent from
\* the registry.
C7_TerminatedClosedAndUnregistered ==
    \A o \in Objs : heap[o].closed <=> ~Registered(o)

\* the step terminates Session object o: it was open and registered, and is
\* closed or unregistered afterwards
Terminates(o) ==
    /\ ~heap[o].closed /\ Registered(o)
    /\ heap'[o].closed \/ sessions'[heap[o].sessionId] # o

\* C8: a step that terminates a session sends exactly one CLOSE, to the
\* address recorded when the session was created.
C8_OneCloseToRecordedAddress ==
    [][\A o \in Objs :
          Terminates(o) => out' = sendClose(heap[o].rinfo, heap[o].sessionId)]_vars

\* C9: an ACK for an open session whose length exceeds the bytes written
\* closes the session, and the only datagram sent is one CLOSE, to the sender.
C9_MisbehavingAckCloses ==
    [][\A buf \in AckDatagrams, rinfo \in Addrs :
          (/\ Live(sessions[Parsed[buf].sessionId])
           /\ Parsed[buf].length > heap[sessions[Parsed[buf].sessionId]].sendLength
           /\ RecvAck(buf, rinfo)) =>
              /\ heap'[sessions[Parsed[buf].sessionId]].closed
              /\ out' = sendClose(rinfo, Parsed[buf].sessionId)]_vars

\* a session with an outstanding segment, closed by an ACK beyond sendLength
C9_Witness ==
    \E o \in Objs : /\ heap[o].closed
                    /\ heap[o].sendDataMsgs # <<>>
                    /\ heap[o].maxAckLength > heap[o].sendLength
                    /\ \E rinfo \in Addrs : out = sendClose(rinfo, heap[o].sessionId)

C11_TerminationEndsStream ==
    [][\A o \in Objs :
          Terminates(o) =>
              /\ heap'[o].pendingResolver = 0
              /\ heap'[o].queue = <<>>
              /\ heap[o].pendingResolver # 0 =>
                    \E i \in 1..Len(app'[o].results) :
                        app'[o].results[i] = EndOfStream(heap[o].pendingResolver)]_vars

\* C12: no write() call throws: every DATA message _data builds is shorter
\* than 1000 bytes, whatever the string written.
C12_EncodeNeverThrows ==
    \A o \in Objs : ~app[o].threw

ConnectDatagrams == {buf \in Datagrams : Parsed[buf].type = "connect"}

\* C13: a CONNECT for an id whose session is open is answered with one ACK(0)
\* and changes nothing: no Session is constructed, the application callback
\* does not run, and every field of the existing Session, its timers and its
\* registry entry stay as they were.
C13_ConnectIdempotent ==
    [][\A buf \in ConnectDatagrams, rinfo \in Addrs :
          (Live(sessions[Parsed[buf].sessionId]) /\ RecvConnect(buf, rinfo)) =>
              /\ out' = AckTo(sessions[Parsed[buf].sessionId], 0)
              /\ UNCHANGED <<heap, sessions, timers, app, age>>]_vars

\* ACK(0) sent for a session that has already read and written bytes: the
\* reply to a CONNECT that was repeated
C13_Witness ==
    \E o \in Objs : /\ ~heap[o].closed /\ Registered(o)
                    /\ out = AckTo(o, 0)
                    /\ heap[o].readPos > 0
                    /\ heap[o].sendLength > 0
                    /\ Len(heap) = 1

CloseDatagrams == {buf \in Datagrams : Parsed[buf].type = "close"}

\* the step sent exactly one CLOSE for the id of buf to rinfo, constructed no
\* Session, changed no Session, timer or pull request, and registered nothing
OnlyCloseSent(buf, rinfo) ==
    /\ out' = sendClose(rinfo, Parsed[buf].sessionId)
    /\ UNCHANGED <<heap, timers, app, age>>
    /\ \A id \in SessionIds : sessions'[id] \in {sessions[id], 0}

\* C14: a DATA, ACK or CLOSE for an id that has no registry entry, or whose
\* registered session is closed, is answered with exactly one CLOSE to the
\* sender of the datagram; no Session is constructed, no Session, timer or
\* pull request changes, and the registry gains no entry.
C14_UnknownSessionAnsweredWithClose ==
    [][\A id \in SessionIds :
          ~Live(sessions[id]) =>
              \A rinfo \in Addrs :
                  /\ \A buf \in DataDatagrams :
                        (Parsed[buf].sessionId = id /\ RecvData(buf, rinfo))
                            => OnlyCloseSent(buf, rinfo)
                  /\ \A buf \in AckDatagrams :
                        (Parsed[buf].sessionId = id /\ RecvAck(buf, rinfo))
                            => OnlyCloseSent(buf, rinfo)
                  /\ \A buf \in CloseDatagrams :
                        (Parsed[buf].sessionId = id /\ RecvClose(buf, rinfo))
                            => OnlyCloseSent(buf, rinfo)]_vars

\* a CLOSE was sent although no Session was ever constructed
C14_Witness ==
    /\ heap = <<>>
    /\ \E rinfo \in Addrs, id \in SessionIds : out = sendClose(rinfo, id)

\* the dispatcher handles datagram buf from rinfo
Deliver(buf, rinfo) ==
    \/ RecvInvalid(buf, rinfo)
    \/ RecvConnect(buf, rinfo)
    \/ RecvData(buf, rinfo)
    \/ RecvAck(buf, rinfo)
    \/ RecvClose(buf, rinfo)

\* C15: a malformed datagram (1000 bytes long, an unescaped slash or backslash
\* left in the payload, a numeric field that is not decimal, an unknown kind)
\* is dropped: nothing is sent and no Session, registry entry, timer or pull
\* request changes; a well-formed frame of 999 bytes is parsed and answered.
C15_MalformedDropped ==
    /\ [](/\ \A buf \in Malformed : Parsed[buf] = NullMsg
          /\ Len(LongestFrame) = LrcpMaxLength
          /\ Parsed[LongestFrame].type = "data")
    /\ [][\A rinfo \in Addrs :
             /\ \A buf \in Malformed :
                   Deliver(buf, rinfo) =>
                       /\ out' = <<>>
                       /\ UNCHANGED <<heap, sessions, timers, app, age>>
             /\ RecvData(LongestFrame, rinfo) => Len(out') = 1]_vars

\* nothing was sent in the last step, and the session still holds what it had
\* before: bytes read, a record queued, a segment outstanding with its timers
C15_Witness ==
    /\ \E buf \in Malformed : Len(buf) = LrcpMaxLength + 1
    /\ out = <<>>
    /\ \E o \in Objs : /\ ~heap[o].closed /\ Registered(o)
                       /\ heap[o].queue # <<>>
                       /\ heap[o].sendDataMsgs # <<>>
                       /\ app[o].pulls = 0
                       /\ Cardinality(timers) = 2

\* the step sent the bytes of segment k of Session object o
Resent(o, k) ==
    \E i \in 1..Len(out') : out'[i].msg = heap[o].sendDataMsgs[k].msg

\* C16: a segment whose end offset is <= maxAckedOffset is not sent again, by
\* its retransmission timer or by ACK handling; when its retransmission tick
\* runs after the ACK, the tick sends nothing and the timer is cancelled.
\* DATA leaves the server only in a tick, in ACK handling or in write().
C16_AckedSegmentNotResent ==
    [][/\ \A tm \in timers :
             (/\ tm.t.kind = "interval"
              /\ ~Unacked(tm.obj, tm.t.seg)
              /\ IntervalFire(tm)) =>
                 /\ out' = <<>>
                 /\ TimerOf(tm.obj, tm.t.seg, "interval")' = {}
       /\ \A buf \in AckDatagrams, rinfo \in Addrs :
             (Live(sessions[Parsed[buf].sessionId]) /\ RecvAck(buf, rinfo)) =>
                 LET o == sessions[Parsed[buf].sessionId]
                 IN  \A k \in 1..Len(heap[o].sendDataMsgs) :
                        Resent(o, k) => heap'[o].maxAckLength < EndOffset(o, k)
       /\ (\E i \in 1..Len(out') : StartsWith(out'[i].msg, DataPrefix)) =>
             \/ \E tm \in timers : IntervalFire(tm)
             \/ \E buf \in AckDatagrams, rinfo \in Addrs : RecvAck(buf, rinfo)
             \/ \E o \in Objs, str \in WriteStrs : AppWrite(o, str)]_vars

\* the first of two segments is acknowledged and its retransmission timer is
\* gone; the second is outstanding and its timer is armed
C16_Witness ==
    \E o \in Objs : /\ ~heap[o].closed
                    /\ Len(heap[o].sendDataMsgs) = 2
                    /\ heap[o].maxAckLength = EndOffset(o, 1)
                    /\ TimerOf(o, 1, "interval") = {}
                    /\ TimerOf(o, 2, "interval") # {}
                    /\ out = <<>>

\* the datagrams that resend, in their original order and with their original
\* bytes, the segments of Session object o whose end offset exceeds length
SegmentsAfter(o, length) ==
    LET idx == SelectSeq([k \in 1..Len(heap[o].sendDataMsgs) |-> k],
                         LAMBDA k : EndOffset(o, k) > length)
    IN  [i \in 1..Len(idx) |->
            [to |-> heap[o].rinfo, msg |-> heap[o].sendDataMsgs[idx[i]].msg]]

\* C17: an ACK(length) with maxAckedOffset < length < sendOffset sets
\* maxAckedOffset to length and resends exactly the segments whose end offset
\* exceeds length, each once, in order, with their original bytes; nothing
\* else of the Session changes.
C17_PartialAckResendsTail ==
    [][\A buf \in AckDatagrams, rinfo \in Addrs :
          (/\ Live(sessions[Parsed[buf].sessionId])
           /\ heap[sessions[Parsed[buf].sessionId]].maxAckLength < Parsed[buf].length
           /\ Parsed[buf].length < heap[sessions[Parsed[buf].sessionId]].sendLength
           /\ RecvAck(buf, rinfo)) =>
              LET o == sessions[Parsed[buf].sessionId]
              IN  /\ heap' = [heap EXCEPT ![o].maxAckLength = Parsed[buf].length]
                  /\ out' = SegmentsAfter(o, Parsed[buf].length)]_vars

\* the first of two segments was acknowledged exactly and only the second one
\* was resent
C17_Witness ==
    \E o \in Objs : /\ ~heap[o].closed
                    /\ Len(heap[o].sendDataMsgs) = 2
                    /\ heap[o].maxAckLength = EndOffset(o, 1)
                    /\ out = <<[to |-> heap[o].rinfo, msg |-> heap[o].sendDataMsgs[2].msg]>>
                    /\ TimerOf(o, 1, "interval") # {}

\* C18: an ACK for an open session whose length is <= maxAckedOffset is
\* ignored: nothing is sent and no Session, registry entry, timer or pull
\* request changes.
C18_StaleAckIgnored ==
    [][\A buf \in AckDatagrams, rinfo \in Addrs :
          (/\ Live(sessions[Parsed[buf].sessionId])
           /\ Parsed[buf].length <= heap[sessions[Parsed[buf].sessionId]].maxAckLength
           /\ RecvAck(buf, rinfo)) =>
              /\ out' = <<>>
              /\ UNCHANGED <<heap, sessions, timers, app, age>>]_vars

\* nothing was sent in the last step; the session has an acknowledged first
\* segment, an outstanding second one, and every timer still armed
C18_Witness ==
    \E o \in Objs : /\ ~heap[o].closed /\ Registered(o)
                    /\ out = <<>>
                    /\ Len(heap[o].sendDataMsgs) = 2
                    /\ heap[o].maxAckLength > 0
                    /\ Unacked(o, 2)
                    /\ \A k \in 1..2 : TimerOf(o, k, "interval") # {}
                    /\ app[o].pulls = 0

\* C19: receiveOffset of a Session changes only in a step that handles a DATA
\* for that Session whose position equals receiveOffset, and then it grows by
\* the length of that payload; so it never decreases, and no CONNECT, ACK,
\* CLOSE, timer, write or next() changes it.
C19_ReceiveOffsetAdvancesInOrder ==
    [][\A o \in Objs :
          heap'[o].readPos # heap[o].readPos =>
              /\ heap'[o].readPos > heap[o].readPos
              /\ \E buf \in DataDatagrams, rinfo \in Addrs :
                    /\ sessions[Parsed[buf].sessionId] = o
                    /\ Parsed[buf].pos = heap[o].readPos
                    /\ heap'[o].readPos = heap[o].readPos + Len(Parsed[buf].data)
                    /\ RecvData(buf, rinfo)]_vars

\* the whole stream was read by a session that has also written, been
\* acknowledged and been pulled from
C19_Witness ==
    \E o \in Objs : /\ heap[o].readPos = Len(PeerStream)
                    /\ heap[o].sendLength > 0
                    /\ heap[o].maxAckLength > 0
                    /\ app[o].pulls > 0

\* C20: in every Session the record queue and the pending-consumer slot are
\* not both non-empty, and next() fills the slot only when the queue is empty.
C20_QueueOrPendingConsumer ==
    /\ [](\A o \in Objs : heap[o].queue = <<>> \/ heap[o].pendingResolver = 0)
    /\ [][\A o \in Objs :
             (/\ heap'[o].pendingResolver # 0
              /\ heap'[o].pendingResolver # heap[o].pendingResolver) =>
                 heap[o].queue = <<>> /\ heap'[o].queue = <<>>]_vars

\* a record went to a consumer and the next one of the same datagram, with
\* no consumer waiting any more, went to the queue
C20_Witness ==
    \E o \in Objs : /\ Delivered(o) # <<>>
                    /\ heap[o].queue # <<>>
                    /\ heap[o].pendingResolver = 0
                    /\ app[o].pulls = 1

\* Session object o is open and registered
Open(o) == ~heap[o].closed /\ Registered(o)

\* C21: with a peer that keeps retransmitting, a channel that loses fairly and
\* a consumer that keeps pulling, a session that stays open eventually accepts
\* every byte of the peer's stream and returns every complete record.
C21_StreamEventuallyDelivered ==
    \A o \in 1..MaxSessions :
        (o <= Len(heap)) ~>
            (/\ o <= Len(heap)
             /\ \/ ~Open(o)
                \/ /\ heap[o].readPos = Len(PeerStream)
                   /\ Delivered(o) = StreamRecords)

\* an open session has accepted the whole stream and the for await consumer
\* has received every record, after a repeated and an out-of-order DATA
C21_Witness ==
    \E o \in Objs : /\ Open(o)
                    /\ heap[o].readPos = Len(PeerStream)
                    /\ Delivered(o) = StreamRecords
                    /\ heap[o].queue = <<>>
                    /\ app[o].pulls = Len(StreamRecords)

\* C22: a CONNECT for an id whose session was closed (by a CLOSE of the peer,
\* a misbehaving ACK or expiry) constructs a new Session object with
\* sendOffset, maxAckedOffset and receiveOffset 0, no segment and no record,
\* registers it under the id, hands it to the application callback once and
\* replies ACK(0); the Session objects that existed are left as they were.
C22_ClosedIdReusedFresh ==
    [][\A buf \in ConnectDatagrams, rinfo \in Addrs :
          (/\ Len(heap) >= 1
           /\ ~Live(sessions[Parsed[buf].sessionId])
           /\ RecvConnect(buf, rinfo)) =>
              LET id == Parsed[buf].sessionId
                  new == Len(heap) + 1
              IN  /\ Len(heap') = new
                  /\ \A o \in Objs : heap'[o] = heap[o]
                  /\ heap'[new].sessionId = id
                  /\ heap'[new].rinfo = rinfo
                  /\ ~heap'[new].closed
                  /\ heap'[new].sendLength = 0
                  /\ heap'[new].maxAckLength = 0
                  /\ heap'[new].readPos = 0
                  /\ heap'[new].sendDataMsgs = <<>>
                  /\ heap'[new].queue = <<>>
                  /\ heap'[new].lineReader = <<>>
                  /\ heap'[new].pendingResolver = 0
                  /\ sessions' = [sessions EXCEPT ![id] = new]
                  /\ Len(app') = new
                  /\ \A o \in Objs : app'[o] = app[o]
                  /\ app'[new].pulls = 0 /\ app'[new].results = <<>>
                  /\ out' = <<[to |-> rinfo, msg |-> AckText(id, 0)]>>
                  /\ UNCHANGED timers]_vars

\* a second Session object was just constructed for the id of a Session that
\* was closed by expiry after it had read and written bytes
C22_Witness ==
    /\ Len(heap) = 2
    /\ heap[1].closed
    /\ heap[1].sendLength > 0 /\ heap[1].readPos > 0 /\ heap[1].maxAckLength = 0
    /\ sessions[heap[1].sessionId] = 2
    /\ heap[2] = NewSession(heap[2].rinfo, heap[1].sessionId)
    /\ out = AckTo(2, 0)

\* escaped text in which every backslash starts a pair \\ or \/ and every
\* slash ends a pair \/
RECURSIVE WellEscaped(_)
WellEscaped(t) ==
    IF t = <<>> THEN TRUE
    ELSE IF t[1] = BS
    THEN Len(t) >= 2 /\ t[2] \in {BS, SL} /\ WellEscaped(SubSeq(t, 3, Len(t)))
    ELSE t[1] # SL /\ WellEscaped(Tail(t))

\* C24: for every payload over '/', '\', a letter and a line feed,
\* unescapeData(escapeData(payload)) = payload, and escapeData(payload)
\* passes isDataValid and holds no unescaped '/' or '\'.
C24_EscapeRoundTrip ==
    (codec.stage = "decoded" /\ codec.m.type = "data") =>
        /\ codec.unescaped = codec.m.data
        /\ codec.valid
        /\ Len(codec.escaped) <= 2 * MaxPayloadLen + 2 => WellEscaped(codec.escaped)

\* a payload with a slash right after a backslash made the round trip
C24_Witness ==
    /\ codec.stage = "decoded"
    /\ codec.m.type = "data"
    /\ \E i \in 1..(Len(codec.m.data) - 1) :
          codec.m.data[i] = BS /\ codec.m.data[i + 1] = SL
    /\ Len(codec.escaped) = 2 * Len(codec.m.data)

\* C25: for every message of the four kinds whose encoding is shorter than
\* 1000 bytes, parseMsg of the wire text yields the message: same kind,
\* session id, position or length, and payload.
C25_DecodeEncode ==
    codec.stage = "decoded" => codec.decoded = codec.m

\* a DATA frame of 999 bytes with ten-digit numbers made the round trip
C25_Witness ==
    /\ codec.stage = "decoded"
    /\ codec.m.type = "data"
    /\ Len(codec.wire) = LrcpMaxLength
    /\ codec.m.pos = 2147483647
    /\ codec.decoded = codec.m

\* a record without the carriage return that ends it
StripCR(line) ==
    IF line # <<>> /\ line[Len(line)] = "\r"
    THEN SubSeq(line, 1, Len(line) - 1) ELSE line

\* position of the first line feed in bytes, 0 when there is none
FirstLF(bytes) ==
    IF \E i \in 1..Len(bytes) : bytes[i] = LF
    THEN CHOOSE i \in 1..Len(bytes) :
            bytes[i] = LF /\ \A j \in 1..(i - 1) : bytes[j] # LF
    ELSE 0

\* C23: the stream is split at every line feed and the bytes before it are
\* one record, with a carriage return right before the line feed removed:
\* readLine yields a record exactly when a line feed is buffered, and the
\* record is the unread bytes before the first line feed without a final
\* carriage return.
C23_RecordsSplitAtLineFeedWithoutCR ==
    trace.last.op = "readLine" =>
        LET unread == Unread(trace.last.before)
            i == FirstLF(unread)
        IN  /\ trace.last.ok <=> i > 0
            /\ trace.last.ok =>
                  trace.last.bytes = StripCR(SubSeq(unread, 1, i - 1))

\* the bytes appended and not yet taken
Pending == SubSeq(trace.appended, trace.taken + 1, Len(trace.appended))

\* C26: the SlidingBufferReader is a FIFO byte queue: available is the
\* number of bytes appended minus the number read, the unread bytes are the
\* appended bytes not yet read, in order, and a successful read(n) returns
\* the next n appended bytes, whatever resets, compactions and growths the
\* calls went through.
C26_FifoByteQueue ==
    /\ available(reader) = Len(trace.appended) - trace.taken
    /\ Unread(reader) = Pending
    /\ (trace.last.op = "read" /\ trace.last.ok) =>
          trace.last.bytes =
              SubSeq(trace.appended, trace.taken - trace.last.n + 1, trace.taken)

\* a read of two or more bytes succeeded on a buffer that has grown, after
\* earlier reads
C26_Witness ==
    /\ trace.last.op = "read"
    /\ trace.last.ok
    /\ trace.last.n >= 2
    /\ trace.taken > trace.last.n
    /\ bufferLength(reader) > MaxInitSize
    /\ trace.last.bytes[1] # trace.last.bytes[2]

\* C27: read(n) returns null exactly when fewer than n unread bytes are
\* buffered, then leaves the offsets and the buffer as they were, and the
\* same read(n), once appends have completed the block, returns the bytes
\* that were buffered at the time of the null first.
C27_NullReadLeavesState ==
    trace.last.op = "read" =>
        /\ ~trace.last.ok <=> available(trace.last.before) < trace.last.n
        /\ ~trace.last.ok =>
              /\ reader = trace.last.before
              /\ trace.null.unread = Unread(reader)
        /\ (trace.last.ok /\ trace.last.retry.n = trace.last.n) =>
              IsPrefix(trace.last.retry.unread, trace.last.bytes)

\* read(n) returned null with some bytes buffered, and succeeded after an
\* append
C27_Witness ==
    /\ trace.last.op = "read"
    /\ trace.last.ok
    /\ trace.last.retry.n = trace.last.n
    /\ trace.last.retry.unread # <<>>
    /\ Len(trace.last.retry.unread) < trace.last.n

\* C28: when everything buffered has been read both offsets are 0; an append
\* grows the buffer exactly when the unread bytes plus the chunk exceed the
\* buffer length and otherwise leaves bufferLength as it was; no call makes
\* bufferLength smaller.
C28_SpaceReusedGrowthOnlyWhenNeeded ==
    /\ available(reader) = 0 => reader.readOffset = 0 /\ reader.writeOffset = 0
    /\ trace.last.op = "append" =>
          LET before == trace.last.before
              needed == available(before) + Len(trace.last.chunk)
          IN  /\ needed > bufferLength(before) =>
                    bufferLength(reader) > bufferLength(before)
              /\ needed <= bufferLength(before) =>
                    bufferLength(reader) = bufferLength(before)
    /\ trace.last.op # "none" =>
          bufferLength(reader) >= bufferLength(trace.last.before)

\* an append that did not fit behind the write offset was served by moving
\* the unread bytes to the front, without growth
C28_Witness ==
    /\ trace.last.op = "append"
    /\ available(trace.last.before) > 0
    /\ trace.last.before.writeOffset + Len(trace.last.chunk)
          > bufferLength(trace.last.before)
    /\ bufferLength(reader) = bufferLength(trace.last.before)
    /\ reader.readOffset = 0

\* the recorded segments of a Session, decoded: positions and raw chunks
SegmentAt(s, i) == parseMsg(s.sendDataMsgs[i].msg)

RECURSIVE ChunksUpTo(_, _)
ChunksUpTo(s, k) ==
    IF k = 0 THEN <<>> ELSE ChunksUpTo(s, k - 1) \o SegmentAt(s, k).data

\* the segments tile [0, sendLength): each carries the end of the one before
\* as its position, holds at most 950 raw bytes, and the lengths add up
Tiled(s) ==
    /\ \A i \in 1..Len(s.sendDataMsgs) :
          /\ SegmentAt(s, i).type = "data"
          /\ SegmentAt(s, i).pos = Len(ChunksUpTo(s, i - 1))
          /\ Len(SegmentAt(s, i).data) = s.sendDataMsgs[i].length
          /\ s.sendDataMsgs[i].length <= MAX_PAYLOAD
    /\ s.sendLength = Len(ChunksUpTo(s, Len(s.sendDataMsgs)))

\* C29: after any sequence of write calls the recorded segments tile
\* [0, sendOffset) in write order, each chunk of at most 950 raw bytes at the
\* sendOffset it was taken at, and the chunks concatenated are the written
\* strings concatenated: every write(str) appends str to them.
C29_WritesTileTheStream ==
    [][\A o \in Objs :
          o <= Len(heap) =>
              \A str \in LongStrs :
                  AppWrite(o, str) =>
                      /\ Tiled(heap'[o])
                      /\ ChunksUpTo(heap'[o], Len(heap'[o].sendDataMsgs))
                            = ChunksUpTo(heap[o], Len(heap[o].sendDataMsgs)) \o str]_vars

AckOrData == {i \in 1..Len(out) :
                StartsWith(out[i].msg, AckPrefix) \/ StartsWith(out[i].msg, DataPrefix)}

\* C31: the reply address of a session is the address of the CONNECT that
\* created it and never changes: when every datagram after the creating
\* CONNECT comes from another address, every ACK and DATA the server sends,
\* ACK(0) to later CONNECTs and retransmissions included, still goes to the
\* creating address.
C31_ReplyAddressFixed ==
    /\ \A o \in Objs : heap[o].rinfo = CreatorAddr
    /\ \A i \in AckOrData : out[i].to = CreatorAddr

\* a DATA datagram from the other address was answered with an ACK beyond 0,
\* sent to the creating address
C31_Witness ==
    \E o \in Objs, i \in AckOrData :
        /\ heap[o].readPos > 0
        /\ out[i] = [to |-> CreatorAddr, msg |-> AckText(heap[o].sessionId, heap[o].readPos)]

\* C32: the registry changes only in a step that handles a datagram: a
\* retransmission tick, an expiry firing, a write and a pull leave every
\* registry entry as it was.
C32_RegistryOnlyByDispatcher ==
    [][/\ sessions' # sessions =>
             \E buf \in Datagrams, rinfo \in Addrs :
                 RecvConnect(buf, rinfo) \/ RecvClose(buf, rinfo)
       /\ (\/ \E tm \in timers : IntervalFire(tm) \/ TimeoutFire(tm)
           \/ \E o \in Objs : AppNext(o)
           \/ \E o \in Objs, str \in WriteStrs : AppWrite(o, str)) =>
             sessions' = sessions]_vars

\* a session that was pulled from and written to, whose expiry timer has
\* fired and closed it, still has its registry entry
C32_Witness ==
    \E o \in Objs :
        /\ Registered(o)
        /\ heap[o].closed
        /\ app[o].pulls > 0
        /\ heap[o].sendDataMsgs # <<>>
        /\ heap[o].maxAckLength = 0
        /\ TimerOf(o, 1, "timeout") = {}

\* the send direction of Session object o is as it was before the step
SendSideKept(o) ==
    /\ heap'[o].sendLength = heap[o].sendLength
    /\ heap'[o].maxAckLength = heap[o].maxAckLength
    /\ heap'[o].sendDataMsgs = heap[o].sendDataMsgs

\* handling DATA leaves the send direction alone; a write leaves the
\* receive direction alone, and the first write goes out with position 0
DataAndWriteIndependent ==
    /\ \A buf \in DataDatagrams, rinfo \in Addrs :
          (Live(sessions[Parsed[buf].sessionId]) /\ RecvData(buf, rinfo)) =>
              SendSideKept(sessions[Parsed[buf].sessionId])
    /\ \A o \in Objs, str \in WriteStrs :
          AppWrite(o, str) =>
              /\ heap'[o].readPos = heap[o].readPos
              /\ heap'[o].queue = heap[o].queue
              /\ heap'[o].lineReader = heap[o].lineReader
              /\ heap[o].sendDataMsgs = <<>> =>
                    out' = <<[to |-> heap[o].rinfo,
                              msg |-> DataText(heap[o].sessionId, 0, str)]>>

\* C33 as stated: handling DATA never changes sendOffset, maxAckedOffset or
\* the outstanding segments, and write or ACK handling never changes
\* receiveOffset or the record queue; the first write on a fresh session is
\* sent with position 0 however many bytes have been received.
C33_DirectionsIndependent ==
    [][/\ DataAndWriteIndependent
       /\ \A buf \in AckDatagrams, rinfo \in Addrs :
             (Live(sessions[Parsed[buf].sessionId]) /\ RecvAck(buf, rinfo)) =>
                 LET o == sessions[Parsed[buf].sessionId]
                 IN  /\ heap'[o].readPos = heap[o].readPos
                     /\ heap'[o].queue = heap[o].queue]_vars

\* C33 amended: as stated, except that an ACK beyond sendOffset closes the
\* session and thereby empties the record queue; every other ACK leaves the
\* queue as it was, and no ACK changes receiveOffset.
C33_DirectionsIndependentUnlessClosed ==
    [][/\ DataAndWriteIndependent
       /\ \A buf \in AckDatagrams, rinfo \in Addrs :
             (Live(sessions[Parsed[buf].sessionId]) /\ RecvAck(buf, rinfo)) =>
                 LET o == sessions[Parsed[buf].sessionId]
                 IN  /\ heap'[o].readPos = heap[o].readPos
                     /\ heap'[o].lineReader = heap[o].lineReader
                     /\ IF Parsed[buf].length > heap[o].sendLength
                           /\ Parsed[buf].length > heap[o].maxAckLength
                        THEN heap'[o].closed /\ heap'[o].queue = <<>>
                        ELSE heap'[o].queue = heap[o].queue]_vars

\* the first write of a session that has received bytes, sent with position 0
C33_Witness ==
    \E o \in Objs :
        /\ heap[o].readPos > 0
        /\ Len(heap[o].sendDataMsgs) = 1
        /\ \E str \in WriteStrs :
              out = <<[to |-> heap[o].rinfo,
                       msg |-> DataText(heap[o].sessionId, 0, str)]>>

\* number of line feeds in bytes
LFCount(bytes) == Cardinality({i \in 1..Len(bytes) : bytes[i] = LF})

\* the bytes after the last line feed of bytes
AfterLastLF(bytes) ==
    LET lfs == {i \in 1..Len(bytes) : bytes[i] = LF}
    IN  IF lfs = {} THEN bytes
        ELSE SubSeq(bytes, (CHOOSE i \in lfs : \A j \in lfs : j <= i) + 1, Len(bytes))

\* C34: the records returned or queued so far, each with its line feed,
\* followed by the accumulator, are exactly the bytes accepted: a record
\* split over segments appears once, and only when its line feed has been
\* accepted. An in-order DATA with k line feeds adds k records, in order,
\* and leaves the bytes after its last line feed in the accumulator.
C34_SplitRecordsDeliveredOnce ==
    /\ \A o \in Objs :
          /\ Terminated(Delivered(o) \o heap[o].queue) \o heap[o].lineReader
                = SubSeq(SplitStream, 1, heap[o].readPos)
          /\ ~includes(heap[o].lineReader, LF)
    /\ (trace.last.op = "data" /\ trace.last.pos = trace.last.readPos) =>
          LET o == trace.last.obj
              fed == trace.last.lineReader \o trace.last.data
              added == Len(Delivered(o) \o heap[o].queue)
                          - Len(Values(SelectSeq(trace.last.results, LAMBDA r : ~r.done))
                                    \o trace.last.queue)
          IN  /\ added = LFCount(trace.last.data)
              /\ heap[o].lineReader = AfterLastLF(fed)

\* a DATA that ends a record begun in an earlier segment, holds a second line
\* feed and ends with the first byte of the next record
C34_Witness ==
    /\ trace.last.op = "data"
    /\ trace.last.pos = trace.last.readPos
    /\ trace.last.lineReader = <<"a">>
    /\ trace.last.data = <<LF, LF, "b">>
    /\ heap[trace.last.obj].lineReader = <<"b">>
    /\ Delivered(trace.last.obj) \o heap[trace.last.obj].queue = <<<<"a">>, <<>>>>

\* C35: at most one Session object that is not closed exists for a session
\* id, registered or not; so after a CLOSE and a new CONNECT for the id no
\* older Session object of the id is left that could still send.
C35_OneOpenSessionPerId ==
    \A o1 \in Objs, o2 \in Objs :
        (/\ o1 # o2
         /\ heap[o1].sessionId = heap[o2].sessionId
         /\ ~heap[o1].closed) => heap[o2].closed

\* everything the server holds for session id: its Session objects with
\* their application side, its registry entry and its timers
View(id) ==
    [objs |-> [o \in {p \in Objs : heap[p].sessionId = id} |->
                  <<heap[o], app[o], age[o]>>],
     reg |-> sessions[id],
     timers |-> {tm \in timers : heap[tm.obj].sessionId = id}]

\* datagram d is a message of session id
Carries(d, id) ==
    \E prefix \in {AckPrefix, DataPrefix, ClosePrefix} :
        StartsWith(d.msg, prefix \o Dec(id) \o <<SL>>)

\* the step is an event of session id: a datagram with that id is handled,
\* or a Session object of the id is pulled from, written to, or has a timer
\* callback run
EventOf(id) ==
    \/ \E buf \in IsoDatagrams :
          /\ Parsed[buf].sessionId = id
          /\ Deliver(buf, CreatorAddr)
    \/ \E o \in Objs :
          /\ heap[o].sessionId = id
          /\ AppNext(o) \/ \E str \in WriteStrs : AppWrite(o, str)
    \/ \E tm \in timers :
          /\ heap[tm.obj].sessionId = id
          /\ IntervalFire(tm) \/ TimeoutFire(tm)

\* C36: sessions are isolated. As a condition on single steps: an event of
\* one session id (a datagram, write, pull or timer callback of that id)
\* changes nothing the server holds for another id and sends no datagram of
\* another id, so the state and the datagrams of id B are the same in runs
\* that differ only in the events of id A.
C36_SessionsIsolated ==
    [][\A a \in IsoIds, b \in IsoIds :
          (/\ a # b
           /\ View(b)' # View(b) \/ \E i \in 1..Len(out') : Carries(out'[i], b))
              => ~EventOf(a)]_vars

\* one session has been closed by a misbehaving ACK while the other, with
\* bytes accepted, a record returned and a segment outstanding, is open
C36_Witness ==
    \E o1 \in Objs, o2 \in Objs :
        /\ heap[o1].sessionId # heap[o2].sessionId
        /\ heap[o1].closed
        /\ ~heap[o2].closed
        /\ heap[o2].readPos > 0
        /\ Delivered(o2) # <<>>
        /\ heap[o2].sendDataMsgs # <<>>

\* C37: a write on a Session that is already closed sends no DATA, arms no
\* timer and leaves sendOffset and the outstanding segments as they were.
C37_WriteOnClosedDoesNothing ==
    [][\A o \in Objs :
          heap[o].closed =>
              \A str \in WriteStrs :
                  AppWrite(o, str) =>
                      /\ out' = <<>>
                      /\ timers' = timers
                      /\ heap'[o].sendLength = heap[o].sendLength
                      /\ heap'[o].sendDataMsgs = heap[o].sendDataMsgs]_vars

\* the resolutions of pull request number p of Session object o
ResolutionsOf(o, p) == {i \in 1..Len(app[o].results) : app[o].results[i].pull = p}

\* C38: every pull request is resolved exactly once: at any time a request
\* that was issued has one resolution, or has none and is the one the
\* Session holds to resolve later, also when a second request was issued
\* before the first was resolved; the records returned are in stream order.
C38_EveryPullResolvedOnce ==
    \A o \in Objs :
        /\ \A p \in 1..app[o].pulls :
              \/ Cardinality(ResolutionsOf(o, p)) = 1 /\ heap[o].pendingResolver # p
              \/ ResolutionsOf(o, p) = {} /\ heap[o].pendingResolver = p
        /\ IsPrefix(Delivered(o), StreamRecords)

\* the object append copies the chunk into: the one ensureCapacity leaves
\* when the chunk does not fit behind writeOffset
Prepared(r, chunk) ==
    IF r.writeOffset + Len(chunk) > Len(r.buffer)
    THEN ensureCapacity(r, Len(chunk)) ELSE r

\* C39: always 0 <= readOffset <= writeOffset <= buffer length; when append
\* copies the chunk, at least chunk.length bytes are free behind writeOffset,
\* so the unread bytes after the append are the unread bytes before it
\* followed by the whole chunk.
C39_OffsetsWithinBuffer ==
    /\ 0 <= reader.readOffset
    /\ reader.readOffset <= reader.writeOffset
    /\ reader.writeOffset <= bufferLength(reader)
    /\ trace.last.op = "append" =>
          LET r == Prepared(trace.last.before, trace.last.chunk)
          IN  /\ bufferLength(r) - r.writeOffset >= Len(trace.last.chunk)
              /\ Unread(r) = Unread(trace.last.before)
              /\ Unread(reader) = Unread(trace.last.before) \o trace.last.chunk

\* an append that did not fit behind writeOffset filled the buffer to its
\* last byte after the unread bytes were moved to the front
C39_Witness ==
    /\ trace.last.op = "append"
    /\ trace.last.before.readOffset > 0
    /\ available(trace.last.before) > 0
    /\ trace.last.before.writeOffset + Len(trace.last.chunk)
          > bufferLength(trace.last.before)
    /\ bufferLength(reader) = bufferLength(trace.last.before)
    /\ reader.writeOffset = bufferLength(reader)

=============================================================================
